---- MODULE Spec2Model ----
(***************************************************************************)
(* A model of the ComplyLight core data sharing engine: the consent        *)
(* decision evaluator, the binding matcher, the two processable document   *)
(* formats (FHIR bundle, CDA document), security labeling and redaction,   *)
(* the data segmentation module registry and the per-unit consent          *)
(* decisions of a document.                                                *)
(*                                                                         *)
(* Conventions.                                                            *)
(*   - A JavaScript array is a sequence; an optional field is a record     *)
(*     with a presence flag (has / kind) next to the value.                *)
(*   - A string id is a record [kind, n]: "resource-3" is                  *)
(*     [kind |-> "resource", n |-> 3], whether the bundle processor made   *)
(*     it up from an index or the resource carries it as its own id.       *)
(*   - A policy is its id (the merge code compares nothing else); a label  *)
(*     is [system, code, policies]; an absent policies array and an empty  *)
(*     one are both <<>> (every read in the code treats them alike).       *)
(***************************************************************************)
EXTENDS Integers, Sequences, FiniteSets, TLC

VARIABLES registry, module, now, consents, ctx, engine, heap, ext, card, audit, op, nOps

vars == <<registry, module, now, consents, ctx, engine, heap, ext, card, audit, op, nOps>>

(***************************************************************************)
(* Bounds of the model.                                                    *)
(***************************************************************************)
MaxConsents == 2    \* longest consent list handed to the engine
MaxNodes == 3       \* most provision nodes in one consent's provision tree
MaxCodings == 2     \* longest list of input codings / of matcher codes
MaxOps == 3         \* longest sequence of document operations
MaxModules == 3     \* most modules in a registry
MaxProvisions == 2  \* most provisions of a consent given to computeConsentDecisionsForDocument
MaxSettings == 3    \* most categories in a module descriptor

(***************************************************************************)
(* Generic helpers (JavaScript array methods).                             *)
(***************************************************************************)
SeqsUpTo(S, n) == UNION {[1..k -> S] : k \in 0..n}

Range(s) == {s[i] : i \in 1..Len(s)}

\* Array.prototype.filter, the callback seeing the element and its position.
FilterIdx(s, Test(_, _)) ==
    LET F[i \in 0..Len(s)] ==
            IF i = 0 THEN <<>>
            ELSE IF Test(s[i], i) THEN Append(F[i - 1], s[i]) ELSE F[i - 1]
    IN F[Len(s)]

\* Array.prototype.flat over a sequence of sequences.
Flat(ss) ==
    LET F[i \in 0..Len(ss)] == IF i = 0 THEN <<>> ELSE F[i - 1] \o ss[i]
    IN F[Len(ss)]

(***************************************************************************)
(* Consents.                                                               *)
(***************************************************************************)
Absent == [kind |-> "absent", t |-> 0]
Invalid == [kind |-> "invalid", t |-> 0]
Instant(t) == [kind |-> "instant", t |-> t]

\* A provision without a nested provision array.
Leaf == [has |-> FALSE, sub |-> <<>>]
Node(subs) == [has |-> TRUE, sub |-> subs]

RECURSIVE ForestsOfSize(_)
RECURSIVE TreesOfSize(_)
\* The provision arrays with exactly n provision nodes in all.
ForestsOfSize(n) ==
    IF n = 0 THEN {<<>>}
    ELSE UNION {{<<t>> \o f : t \in TreesOfSize(k), f \in ForestsOfSize(n - k)} : k \in 1..n}
TreesOfSize(k) ==
    (IF k = 1 THEN {Leaf} ELSE {}) \cup {Node(f) : f \in ForestsOfSize(k - 1)}

Forests == UNION {ForestsOfSize(n) : n \in 0..MaxNodes}

NoProvision == [has |-> FALSE, list |-> <<>>]
Provision(f) == [has |-> TRUE, list |-> f]

Decisions == {"permit", "deny", "unset"}

Consent(status, start, end, decision, provision) ==
    [status |-> status, start |-> start, end |-> end,
     decision |-> decision, provision |-> provision]

(***************************************************************************)
(* filterForApplicableConsents.  Date.now() is read anew for every element *)
(* in each of the two period passes; the clock may advance by one between  *)
(* two reads: tickAt is the number of the first read that sees now + 1     *)
(* (0: the clock does not advance during the call).                        *)
(***************************************************************************)
DateNow(read, tickAt) == IF tickAt # 0 /\ read >= tickAt THEN now + 1 ELSE now

\* !c.period?.start : an absent (or empty) bound is falsy.
Falsy(p) == p.kind = "absent"

\* new Date(s).valueOf() <= r : NaN (an unparsable string) compares false.
DateLeq(p, r) == p.kind = "instant" /\ p.t <= r
DateGeq(p, r) == p.kind = "instant" /\ p.t >= r

\* (mutant: a start equal to the reading is taken for a future one)
StartOk_Strict(c, r) == Falsy(c.start) \/ (c.start.kind = "instant" /\ c.start.t < r)
StartOk(c, r) == Falsy(c.start) \/ (~Falsy(c.start) /\ DateLeq(c.start, r))
EndOk(c, r) == Falsy(c.end) \/ (~Falsy(c.end) /\ DateGeq(c.end, r))

\* The three passes, over the positions of the input list (object identity).
ActiveIdx(cs) ==
    LET Test(i, k) == cs[i].status = "active"
    IN FilterIdx([i \in 1..Len(cs) |-> i], Test)

StartedIdx(cs, tickAt) ==
    LET Test(i, k) == StartOk(cs[i], DateNow(k, tickAt))
    IN FilterIdx(ActiveIdx(cs), Test)

filterForApplicableConsentsIdx(cs, tickAt) ==
    LET base == Len(ActiveIdx(cs))
        Test(i, k) == EndOk(cs[i], DateNow(base + k, tickAt))
    IN FilterIdx(StartedIdx(cs, tickAt), Test)

filterForApplicableConsents(cs, tickAt) ==
    LET idx == filterForApplicableConsentsIdx(cs, tickAt)
    IN [k \in 1..Len(idx) |-> cs[idx[k]]]

\* The clock readings the two period tests of each input element were given
\* ([has |-> FALSE]: the element did not reach that test).
PositionIn(s, x) == CHOOSE k \in 1..Len(s) : s[k] = x
NoReading == [has |-> FALSE, t |-> 0]
Reading(t) == [has |-> TRUE, t |-> t]
Readings(cs, tickAt) ==
    [i \in 1..Len(cs) |->
        [start |-> IF i \in Range(ActiveIdx(cs))
                   THEN Reading(DateNow(PositionIn(ActiveIdx(cs), i), tickAt))
                   ELSE NoReading,
         end |-> IF i \in Range(StartedIdx(cs, tickAt))
                 THEN Reading(DateNow(Len(ActiveIdx(cs))
                                      + PositionIn(StartedIdx(cs, tickAt), i), tickAt))
                 ELSE NoReading]]

(***************************************************************************)
(* consentDecision and consentDecisionProvisionsRecursive.                 *)
(***************************************************************************)
Opposite(mode) == IF mode = "permit" THEN "deny" ELSE "permit"

\* (mutant: a provision list that is not empty decides with its mode)
consentDecisionProvisionsRecursive_ModeDecides(mode, provisions) ==
    IF Len(provisions) > 0 THEN mode ELSE "unspecified"

RECURSIVE consentDecisionProvisionsRecursive(_, _)
consentDecisionProvisionsRecursive(mode, provisions) ==
    LET sub_results ==
            Flat([i \in 1..Len(provisions) |->
                    IF provisions[i].has
                    THEN <<consentDecisionProvisionsRecursive(Opposite(mode), provisions[i].sub)>>
                    ELSE <<>>])
        sub_permits == SelectSeq(sub_results, LAMBDA sr : sr = "permit")
        sub_denies == SelectSeq(sub_results, LAMBDA sr : sr = "deny")
    IN IF Len(sub_denies) > 0 THEN "deny"
       ELSE IF Len(sub_permits) > 0 THEN "permit"
       ELSE "unspecified"

\* (mutant: an unset root decision is taken for a permit)
RootDecision_UnsetPermits(consent) ==
    IF consent.decision = "deny" THEN "deny" ELSE "permit"
RootDecision(consent) ==
    CASE consent.decision = "deny" -> "deny"
      [] consent.decision = "permit" -> "permit"
      [] OTHER -> "unspecified"

consentDecision(consent) ==
    LET decision == RootDecision(consent)
        provisions_result ==
            IF ~consent.provision.has THEN "unspecified"
            ELSE CASE decision = "permit" ->
                        consentDecisionProvisionsRecursive("deny", consent.provision.list)
                   [] decision = "deny" ->
                        consentDecisionProvisionsRecursive("permit", consent.provision.list)
                   [] OTHER -> "unspecified"
    IN IF provisions_result \in {"permit", "deny"} THEN provisions_result ELSE decision

(***************************************************************************)
(* Codings, labels, policies, bindings.                                    *)
(***************************************************************************)
Coding(system, code) == [system |-> system, code |-> code]

\* A security label (CodingWithPolicies): policies is the list of policy ids.
Label(system, code, policies) == [system |-> system, code |-> code, policies |-> policies]

\* A matcher code of a binding's code set (CodeSetCoding).
Matcher(system, code, confidence) ==
    [system |-> system, code |-> code, confidence |-> confidence]

KeyOf(l) == Coding(l.system, l.code)

SameKey(a, b) == a.system = b.system /\ a.code = b.code

\* Binding.allCodeObjects: codeSets.map(cs => cs.codes).flat()
allCodeObjects(binding) == Flat(binding.codeSets)

\* (mutant: a confidence equal to the threshold does not qualify)
applicableBindingsFor_Above(codings, allBindings, threshold) ==
    SelectSeq(allBindings, LAMBDA binding :
        \E m \in 1..Len(allCodeObjects(binding)) :
            LET coding == allCodeObjects(binding)[m]
            IN \E i \in 1..Len(codings) :
                   /\ coding.system = codings[i].system
                   /\ coding.code = codings[i].code
                   /\ coding.confidence > threshold)
\* applicableBindingsFor: the confidence read is the matcher code's own.
applicableBindingsFor(codings, allBindings, threshold) ==
    SelectSeq(allBindings, LAMBDA binding :
        \E m \in 1..Len(allCodeObjects(binding)) :
            LET coding == allCodeObjects(binding)[m]
            IN \E i \in 1..Len(codings) :
                   /\ coding.system = codings[i].system
                   /\ coding.code = codings[i].code
                   /\ coding.confidence >= threshold)

(***************************************************************************)
(* Unit ids.                                                               *)
(***************************************************************************)
Id(kind, n) == [kind |-> kind, n |-> n]
NoId == Id("none", 0)
DocumentId == Id("document", 0)

(***************************************************************************)
(* FHIR bundle document (FhirBundleDocument, FhirResourceUnit).            *)
(* A bundle: [type, resourceType, hasEntry, entry, total]; an entry:       *)
(* [hasResource, id, codings, hasSecurity, security].                      *)
(***************************************************************************)
Entry(hasResource, id, codings, hasSecurity, security) ==
    [hasResource |-> hasResource, id |-> id, codings |-> codings,
     hasSecurity |-> hasSecurity, security |-> security]

Bundle(resourceType, hasEntry, entry) ==
    [type |-> "bundle", resourceType |-> resourceType, hasEntry |-> hasEntry,
     entry |-> entry, total |-> -1]

\* e.resource.id || `resource-${index}` (index counts from 0).
ResourceId(e, i) == IF e.id.kind = "none" THEN Id("resource", i - 1) ELSE e.id

\* The LabelableUnits of a bundle: [id, at] with at the entry the unit wraps.
Fhir_getLabelableUnits(bundle) ==
    IF ~bundle.hasEntry THEN <<>>
    ELSE LET Test(i, k) == bundle.entry[i].hasResource
             idx == FilterIdx([i \in 1..Len(bundle.entry) |-> i], Test)
         IN [k \in 1..Len(idx) |->
                [id |-> ResourceId(bundle.entry[idx[k]], idx[k]), at |-> idx[k]]]

\* FhirResourceUnit.extractCodings: the codings under the unit's own resource.
Fhir_extractCodings(bundle, unit) == bundle.entry[unit.at].codings

\* The first entry whose resource answers to unitId (0: none).
Fhir_findEntry(bundle, unitId) ==
    LET hits == {i \in 1..Len(bundle.entry) :
                    bundle.entry[i].hasResource /\ ResourceId(bundle.entry[i], i) = unitId}
    IN IF hits = {} THEN 0 ELSE CHOOSE i \in hits : \A j \in hits : i <= j

\* Merging policies into an existing label: deduplicated by policy id.
MergePolicies(existing, policies) ==
    LET F[i \in 0..Len(policies)] ==
            IF i = 0 THEN existing
            ELSE IF \E k \in 1..Len(F[i - 1]) : F[i - 1][k] = policies[i]
                 THEN F[i - 1]
                 ELSE Append(F[i - 1], policies[i])
    IN F[Len(policies)]

\* (mutant: a label is pushed whether or not its (system, code) is there)
Fhir_applyLabel_Push(security, label) ==
    Append(security, Label(label.system, label.code, label.policies))
\* One label of labels.forEach in applySecurityLabelsToUnit.
Fhir_applyLabel(security, label) ==
    LET hits == {k \in 1..Len(security) :
                    security[k].system = label.system /\ security[k].code = label.code}
    IN IF hits = {}
       THEN Append(security, Label(label.system, label.code, label.policies))
       ELSE LET k == CHOOSE x \in hits : \A y \in hits : x <= y
            IN [security EXCEPT ![k].policies = MergePolicies(@, label.policies)]

Fhir_applyLabels(security, labels) ==
    LET F[i \in 0..Len(labels)] ==
            IF i = 0 THEN security ELSE Fhir_applyLabel(F[i - 1], labels[i])
    IN F[Len(labels)]

Fhir_applySecurityLabelsToUnit(bundle, unitId, labels) ==
    IF ~bundle.hasEntry THEN bundle
    ELSE LET i == Fhir_findEntry(bundle, unitId)
         IN IF i = 0 THEN bundle
            ELSE [bundle EXCEPT
                    !.entry[i].hasSecurity = TRUE,
                    !.entry[i].security = Fhir_applyLabels(@, labels)]

\* The first entry with that id that has meta.security decides; else [].
Fhir_getSecurityLabelsForUnit(bundle, unitId) ==
    IF ~bundle.hasEntry THEN <<>>
    ELSE LET hits == {i \in 1..Len(bundle.entry) :
                        /\ bundle.entry[i].hasResource
                        /\ ResourceId(bundle.entry[i], i) = unitId
                        /\ bundle.entry[i].hasSecurity}
         IN IF hits = {} THEN <<>>
            ELSE bundle.entry[CHOOSE i \in hits : \A j \in hits : i <= j].security

\* true iff some label of the unit matches some redaction label.
Fhir_shouldRedactUnit(bundle, unitId, redactionLabels) ==
    IF Len(redactionLabels) = 0 THEN FALSE
    ELSE LET unitLabels == Fhir_getSecurityLabelsForUnit(bundle, unitId)
         IN \E u \in 1..Len(unitLabels) : \E r \in 1..Len(redactionLabels) :
                /\ unitLabels[u].system = redactionLabels[r].system
                /\ unitLabels[u].code = redactionLabels[r].code

(***************************************************************************)
(* CDA document (CdaDocument, CdaUnit).                                    *)
(* A document: [type, hasClinicalDocument, code, conf, nodes].  nodes is   *)
(* the list of sections and entries in the order extractUnitsFromSections  *)
(* visits them (a section, its entries, its nested sections), each         *)
(* [kind, depth, code, conf]; conf is the element's confidentialityCode:   *)
(* [present, codes], a single object being a list of one.  The conf of     *)
(* the document is the one of the root object findElementById returns for  *)
(* 'document'.                                                             *)
(***************************************************************************)
NoConf == [present |-> FALSE, codes |-> <<>>]
Conf(codes) == [present |-> TRUE, codes |-> codes]

NoCode == [has |-> FALSE, system |-> "", code |-> ""]
Code(system, code) == [has |-> TRUE, system |-> system, code |-> code]

CdaNode(kind, depth, code, conf) ==
    [kind |-> kind, depth |-> depth, code |-> code, conf |-> conf]

Cda(hasClinicalDocument, code, conf, nodes) ==
    [type |-> "cda", hasClinicalDocument |-> hasClinicalDocument,
     code |-> code, conf |-> conf, nodes |-> nodes]

\* getLabelableUnits / extractUnitsFromSections: one counter numbers the
\* sections and the entries alike.  at = 0 is the document itself.
Cda_getLabelableUnits(doc) ==
    IF ~doc.hasClinicalDocument THEN <<>>
    ELSE <<[id |-> DocumentId, at |-> 0]>> \o
         [i \in 1..Len(doc.nodes) |-> [id |-> Id(doc.nodes[i].kind, i - 1), at |-> i]]

\* The nodes below node i (i = 0: all of them).
Cda_below(doc, i) ==
    IF i = 0 THEN 1..Len(doc.nodes)
    ELSE {j \in (i + 1)..Len(doc.nodes) :
            \A m \in (i + 1)..j : doc.nodes[m].depth > doc.nodes[i].depth}

\* CdaUnit.extractCodings: the code of the element and of everything below it.
Cda_extractCodings(doc, unit) ==
    LET codeOf(i) == IF i = 0 THEN doc.code ELSE doc.nodes[i].code
        Test(i, k) == codeOf(i).has /\ (i = unit.at \/ i \in Cda_below(doc, unit.at))
        mine == FilterIdx([k \in 1..(Len(doc.nodes) + 1) |-> k - 1], Test)
    IN [k \in 1..Len(mine) |-> Coding(codeOf(mine[k]).system, codeOf(mine[k]).code)]

\* findSectionByIndex / findEntryByIndex: the index counts the elements of
\* that kind only.  The result is a position in nodes, 0 when there is none.
Cda_findByIndex(doc, kind, targetIndex) ==
    LET Test(i, k) == doc.nodes[i].kind = kind
        ofKind == FilterIdx([i \in 1..Len(doc.nodes) |-> i], Test)
    IN IF targetIndex + 1 \in 1..Len(ofKind) THEN ofKind[targetIndex + 1] ELSE 0

\* findElementById: [found, at]; at = 0 is the root object.
Cda_findElementById(doc, unitId) ==
    IF unitId = DocumentId THEN [found |-> TRUE, at |-> 0]
    ELSE IF ~doc.hasClinicalDocument THEN [found |-> FALSE, at |-> 0]
    ELSE IF unitId.kind \in {"section", "entry"}
         THEN LET at == Cda_findByIndex(doc, unitId.kind, unitId.n)
              IN [found |-> at # 0, at |-> at]
         ELSE [found |-> FALSE, at |-> 0]

Cda_confAt(doc, at) == IF at = 0 THEN doc.conf ELSE doc.nodes[at].conf

\* Merge into existing codes: a code is pushed unless it is there already.
Cda_mergeCodes(existing, codes) ==
    LET F[i \in 0..Len(codes)] ==
            IF i = 0 THEN existing
            ELSE IF \E k \in 1..Len(F[i - 1]) :
                        F[i - 1][k].code = codes[i].code /\ F[i - 1][k].system = codes[i].system
                 THEN F[i - 1]
                 ELSE Append(F[i - 1], codes[i])
    IN F[Len(codes)]

\* The confidentialityCode of an element after applySecurityLabelsToUnit.
Cda_applyToConf(conf, labels) ==
    LET confidentialityCodes == [k \in 1..Len(labels) |-> Coding(labels[k].system, labels[k].code)]
    IN IF ~conf.present
       THEN Conf(confidentialityCodes)
       ELSE Conf(Cda_mergeCodes(conf.codes, confidentialityCodes))

Cda_applySecurityLabelsToUnit(doc, unitId, labels) ==
    LET element == Cda_findElementById(doc, unitId)
    IN IF ~element.found THEN doc
       ELSE IF element.at = 0
            THEN [doc EXCEPT !.conf = Cda_applyToConf(@, labels)]
            ELSE [doc EXCEPT !.nodes[element.at].conf = Cda_applyToConf(@, labels)]

\* The labels come back without policies: a confidentialityCode keeps none.
Cda_getSecurityLabelsForUnit(doc, unitId) ==
    LET element == Cda_findElementById(doc, unitId)
    IN IF ~element.found THEN <<>>
       ELSE LET codes == Cda_confAt(doc, element.at).codes
            IN [k \in 1..Len(codes) |-> Label(codes[k].system, codes[k].code, <<>>)]

Cda_shouldRedactUnit(doc, unitId, redactionLabels) ==
    IF Len(redactionLabels) = 0 THEN FALSE
    ELSE LET unitLabels == Cda_getSecurityLabelsForUnit(doc, unitId)
         IN \E u \in 1..Len(unitLabels) : \E r \in 1..Len(redactionLabels) :
                /\ unitLabels[u].system = redactionLabels[r].system
                /\ unitLabels[u].code = redactionLabels[r].code

(***************************************************************************)
(* The ProcessableDocument interface over the two formats.                 *)
(***************************************************************************)
FHIR_BUNDLE == "fhir-bundle"
CDA_DOCUMENT == "cda-document"

getDocumentType(d) == IF d.type = "bundle" THEN FHIR_BUNDLE ELSE CDA_DOCUMENT

getLabelableUnits(d) ==
    IF d.type = "bundle" THEN Fhir_getLabelableUnits(d) ELSE Cda_getLabelableUnits(d)

extractCodings(d, unit) ==
    IF d.type = "bundle" THEN Fhir_extractCodings(d, unit) ELSE Cda_extractCodings(d, unit)

applySecurityLabelsToUnit(d, unitId, labels) ==
    IF d.type = "bundle"
    THEN Fhir_applySecurityLabelsToUnit(d, unitId, labels)
    ELSE Cda_applySecurityLabelsToUnit(d, unitId, labels)

getSecurityLabelsForUnit(d, unitId) ==
    IF d.type = "bundle"
    THEN Fhir_getSecurityLabelsForUnit(d, unitId)
    ELSE Cda_getSecurityLabelsForUnit(d, unitId)

shouldRedactUnit(d, unitId, redactionLabels) ==
    IF d.type = "bundle"
    THEN Fhir_shouldRedactUnit(d, unitId, redactionLabels)
    ELSE Cda_shouldRedactUnit(d, unitId, redactionLabels)

(***************************************************************************)
(* DocumentProcessorRegistry (createDefault: the FHIR processor, then the  *)
(* CDA processor).  A raw input is a bundle object, a CDA structure (or    *)
(* its XML, taken as parsed) or [type |-> "raw"], which no processor       *)
(* accepts.                                                                *)
(***************************************************************************)
NoObject == [type |-> "none"]
RawContent == [type |-> "raw"]

\* FhirBundleProcessor.canProcess
Fhir_canProcess(document) ==
    document.type = "bundle" /\ document.resourceType = "Bundle" /\ document.hasEntry

\* CdaDocumentProcessor.canProcess
Cda_canProcess(document) ==
    document.type = "cda" /\ document.hasClinicalDocument

\* findProcessor: TRUE when some registered processor accepts the document.
findProcessor(document) == Fhir_canProcess(document) \/ Cda_canProcess(document)

(***************************************************************************)
(* Objects and references.  heap maps a reference to the document object   *)
(* it names: "orig" is the caller's object, "clone" the copy a             *)
(* ConsentExtension makes.  A ConsentExtension is                          *)
(* [hasDoc, doc, hasContent, content, obligations, decision], doc and      *)
(* content being references.                                               *)
(***************************************************************************)
Refs == {"orig", "clone"}

CONSENT_PERMIT == "CONSENT_PERMIT"
CONSENT_DENY == "CONSENT_DENY"
NO_CONSENT == "NO_CONSENT"

REDACTION_OBLIGATION == Coding("http://terminology.hl7.org/CodeSystem/v3-ActCode", "REDACT")

Obligation(id, codes) == [id |-> id, codes |-> codes]

NullExtension ==
    [hasDoc |-> FALSE, doc |-> "clone", hasContent |-> FALSE, content |-> "clone",
     obligations |-> <<>>, decision |-> NO_CONSENT]

\* (mutant: the extension keeps the request's own document, not a clone)
ConsentExtension_NoClone(h, ref, asDocument) ==
    IF asDocument
    THEN [ext |-> [NullExtension EXCEPT
                     !.hasDoc = TRUE, !.doc = ref,
                     !.hasContent = (getDocumentType(h[ref]) = FHIR_BUNDLE),
                     !.content = ref],
          heap |-> h]
    ELSE [ext |-> [NullExtension EXCEPT !.hasContent = TRUE, !.content = ref],
          heap |-> h]
\* new ConsentExtension(requestContent), requestContent the document at ref,
\* given as a ProcessableDocument (asDocument) or as a legacy bundle.
\* The result is [ext, heap].
ConsentExtension(h, ref, asDocument) ==
    IF asDocument
    THEN [ext |-> [NullExtension EXCEPT
                     !.hasDoc = TRUE, !.doc = "clone",
                     !.hasContent = (getDocumentType(h[ref]) = FHIR_BUNDLE),
                     !.content = ref],
          heap |-> [h EXCEPT !["clone"] = h[ref]]]
    ELSE [ext |-> [NullExtension EXCEPT !.hasContent = TRUE, !.content = "clone"],
          heap |-> [h EXCEPT !["clone"] = h[ref]]]

\* The redaction labels collected from the obligations.
RedactionLabels(obligations) ==
    Flat([k \in 1..Len(obligations) |->
            IF /\ obligations[k].id.code = REDACTION_OBLIGATION.code
               /\ obligations[k].id.system = REDACTION_OBLIGATION.system
            THEN obligations[k].codes
            ELSE <<>>])

(***************************************************************************)
(* addSecurityLabels.  A binding is [id, labels, codeSets, policies].      *)
(***************************************************************************)
Binding(id, labels, codeSets, policies) ==
    [id |-> id, labels |-> labels, codeSets |-> codeSets, policies |-> policies]

\* `${binding.id || 'binding'}-${binding.labels.map(l => `${l.system}|${l.code}`).join(',')}`
BindingKey(binding) ==
    <<IF binding.id = "" THEN "binding" ELSE binding.id, binding.labels>>

\* (mutant: the obligation's id is applied as one more label)
LabelsToApply_WithObligationId(binding) ==
    Append([k \in 1..Len(binding.labels) |->
              Label(binding.labels[k].system, binding.labels[k].code, binding.policies)],
           Label(REDACTION_OBLIGATION.system, REDACTION_OBLIGATION.code, binding.policies))
\* The labels built from a binding, its policies attached to each.
LabelsToApply(binding) ==
    [k \in 1..Len(binding.labels) |->
        Label(binding.labels[k].system, binding.labels[k].code, binding.policies)]

\* unitBindings.forEach for one unit; st is [doc, obligations, seenBindings].
LabelUnit(st, unit, unitBindings) ==
    LET F[i \in 0..Len(unitBindings)] ==
            IF i = 0 THEN st
            ELSE LET binding == unitBindings[i]
                     bindingKey == BindingKey(binding)
                 IN [doc |-> applySecurityLabelsToUnit(F[i - 1].doc, unit.id, LabelsToApply(binding)),
                     obligations |->
                        IF bindingKey \in F[i - 1].seenBindings
                        THEN F[i - 1].obligations
                        ELSE Append(F[i - 1].obligations,
                                    Obligation(REDACTION_OBLIGATION, binding.labels)),
                     seenBindings |-> F[i - 1].seenBindings \cup {bindingKey}]
    IN F[Len(unitBindings)]

\* units.forEach over the units enumerated before any label is applied.
LabelUnits(doc, obligations, bindings, threshold) ==
    LET units == getLabelableUnits(doc)
        F[i \in 0..Len(units)] ==
            IF i = 0 THEN [doc |-> doc, obligations |-> obligations, seenBindings |-> {}]
            ELSE LabelUnit(F[i - 1], units[i],
                           applicableBindingsFor(extractCodings(doc, units[i]), bindings, threshold))
    IN F[Len(units)]

\* (mutant: no early return when no processable document is available)
addSecurityLabels_NoEarlyReturn(e, h, bindings, threshold) ==
    LET found == e.hasDoc \/ (e.hasContent /\ findProcessor(h[e.content]))
        ref == IF e.hasDoc THEN e.doc ELSE e.content
    IN IF ~found
       THEN [ext |-> [e EXCEPT !.obligations =
                         Append(@, Obligation(REDACTION_OBLIGATION, <<>>))],
             heap |-> h]
       ELSE LET st == LabelUnits(h[ref], e.obligations, bindings, threshold)
                fhir == getDocumentType(h[ref]) = FHIR_BUNDLE
            IN [ext |-> [e EXCEPT !.hasDoc = TRUE, !.doc = ref,
                                  !.obligations = st.obligations,
                                  !.hasContent = IF fhir THEN TRUE ELSE @,
                                  !.content = IF fhir THEN ref ELSE @],
                heap |-> [h EXCEPT ![ref] = st.doc]]
\* addSecurityLabels on extension e over heap h; the result is [ext, heap].
addSecurityLabels(e, h, bindings, threshold) ==
    LET found == e.hasDoc \/ (e.hasContent /\ findProcessor(h[e.content]))
        ref == IF e.hasDoc THEN e.doc ELSE e.content
    IN IF ~found THEN [ext |-> e, heap |-> h]
       ELSE LET st == LabelUnits(h[ref], e.obligations, bindings, threshold)
                fhir == getDocumentType(h[ref]) = FHIR_BUNDLE
            IN [ext |-> [e EXCEPT !.hasDoc = TRUE, !.doc = ref,
                                  !.obligations = st.obligations,
                                  !.hasContent = IF fhir THEN TRUE ELSE @,
                                  !.content = IF fhir THEN ref ELSE @],
                heap |-> [h EXCEPT ![ref] = st.doc]]

(***************************************************************************)
(* redactFromLabels.                                                       *)
(***************************************************************************)
\* The value the legacy entry filter keeps an entry on.
shouldRedactFromLabelsLegacy(e, resource) ==
    IF resource.hasSecurity
    THEN LET shouldRedact ==
                \E o \in 1..Len(e.obligations) :
                    /\ e.obligations[o].id.code = REDACTION_OBLIGATION.code
                    /\ e.obligations[o].id.system = REDACTION_OBLIGATION.system
                    /\ \E c \in 1..Len(e.obligations[o].codes) :
                         \E k \in 1..Len(resource.security) :
                            /\ e.obligations[o].codes[c].code = resource.security[k].code
                            /\ e.obligations[o].codes[c].system = resource.security[k].system
         IN ~shouldRedact
    ELSE FALSE

\* consentExtension.content?.entry is there to filter.
HasEntryList(h, e) ==
    e.hasContent /\ h[e.content].type = "bundle" /\ h[e.content].hasEntry

\* (mutant: nothing is redacted from a permitted response)
redactFromLabels_PermitKeeps(e, h) ==
    IF e.decision = CONSENT_PERMIT THEN [ext |-> e, heap |-> h]
    ELSE IF e.hasDoc
    THEN LET Keep(en, i) ==
                IF en.hasResource
                THEN ~shouldRedactUnit(h[e.doc], ResourceId(en, i), RedactionLabels(e.obligations))
                ELSE TRUE
         IN IF getDocumentType(h[e.doc]) = FHIR_BUNDLE /\ HasEntryList(h, e)
            THEN [ext |-> e, heap |-> [h EXCEPT ![e.content].entry = FilterIdx(@, Keep)]]
            ELSE [ext |-> e, heap |-> h]
    ELSE IF HasEntryList(h, e)
    THEN LET Keep(en, i) ==
                IF en.hasResource THEN shouldRedactFromLabelsLegacy(e, en) ELSE TRUE
         IN [ext |-> e, heap |-> [h EXCEPT ![e.content].entry = FilterIdx(@, Keep)]]
    ELSE [ext |-> e, heap |-> h]

redactFromLabels(e, h) ==
    IF e.hasDoc
    THEN LET processableDoc == h[e.doc]
             redactionLabels == RedactionLabels(e.obligations)
             Keep(en, i) ==
                IF en.hasResource
                THEN ~shouldRedactUnit(processableDoc, ResourceId(en, i), redactionLabels)
                ELSE TRUE
         IN IF getDocumentType(processableDoc) = FHIR_BUNDLE /\ HasEntryList(h, e)
            THEN [ext |-> e,
                  heap |-> [h EXCEPT ![e.content].entry = FilterIdx(@, Keep)]]
            ELSE [ext |-> e, heap |-> h]
    ELSE IF HasEntryList(h, e)
    THEN LET Keep(en, i) ==
                IF en.hasResource THEN shouldRedactFromLabelsLegacy(e, en) ELSE TRUE
         IN [ext |-> e, heap |-> [h EXCEPT ![e.content].entry = FilterIdx(@, Keep)]]
    ELSE [ext |-> e, heap |-> h]

(***************************************************************************)
(* process.  c is the engine context: c.kind says which of                 *)
(* contentDocument, content, contentRaw holds the caller's object         *)
(* h["orig"] ("none": neither).  eng is the engine: threshold,            *)
(* redaction_enabled, create_audit_event, the provider's bindings, and     *)
(* cardHasExtension: whether a new Card carries an empty extension of its  *)
(* own (see CardHasExtension).                                             *)
(* The result is [threw, summary, filtered, results, ext, heap, audited].  *)
(***************************************************************************)
\* (mutant: a permit trumps the denies)
Aggregate_PermitFirst(results) ==
    IF \E i \in 1..Len(results) : results[i] = "permit" THEN CONSENT_PERMIT
    ELSE IF \E i \in 1..Len(results) : results[i] = "deny" THEN CONSENT_DENY
    ELSE NO_CONSENT
Aggregate(results) ==
    LET permits == SelectSeq(results, LAMBDA sr : sr = "permit")
        denies == SelectSeq(results, LAMBDA sr : sr = "deny")
    IN IF Len(denies) > 0 THEN CONSENT_DENY
       ELSE IF Len(permits) > 0 THEN CONSENT_PERMIT
       ELSE NO_CONSENT

\* Update the number of bundle resources after redaction.
UpdateTotal(r) ==
    IF r.ext.hasDoc
    THEN IF HasEntryList(r.heap, r.ext)
         THEN [r EXCEPT !.heap[r.ext.content].total =
                            Len(getLabelableUnits(r.heap[r.ext.doc]))]
         ELSE r
    ELSE IF HasEntryList(r.heap, r.ext)
         THEN [r EXCEPT !.heap[r.ext.content].total = Len(r.heap[r.ext.content].entry)]
         ELSE r

process(cs, tickAt, c, h, eng) ==
    LET filtered == filterForApplicableConsentsIdx(cs, tickAt)
        results == [i \in 1..Len(filtered) |-> consentDecision(cs[filtered[i]])]
        summary == IF Len(filtered) > 0 THEN Aggregate(results) ELSE NO_CONSENT
        hasDocument ==
            \/ c.kind = "document"
            \/ (c.kind \in {"content", "raw"} /\ findProcessor(h["orig"]))
        hasExtension == hasDocument \/ c.kind = "content" \/ eng.cardHasExtension
        \* card.extension = new ConsentExtension(...); decision = card.summary
        attached ==
            IF hasDocument
            THEN LET x == ConsentExtension(h, "orig", TRUE)
                 IN [x EXCEPT !.ext.decision = summary]
            ELSE IF c.kind = "content"
            THEN LET x == ConsentExtension(h, "orig", FALSE)
                 IN [x EXCEPT !.ext.decision = summary]
            ELSE [ext |-> NullExtension, heap |-> h]
        labeled(a) ==
            IF hasExtension
            THEN addSecurityLabels(a.ext, a.heap, eng.bindings, eng.threshold)
            ELSE a
        redacted(l) ==
            IF eng.redaction_enabled /\ hasExtension
            THEN redactFromLabels(l.ext, l.heap)
            ELSE l
        counted(r) == IF hasExtension THEN UpdateTotal(r) ELSE r
        \* The statements in their order, each on the outcome of the one before.
        outcomes ==
            {counted(r) : r \in {redacted(l) : l \in {labeled(a) : a \in {attached}}}}
    IN CHOOSE out \in
          {[threw |-> ~hasExtension,
            summary |-> summary,
            filtered |-> filtered,
            results |-> results,
            hasExtension |-> hasExtension,
            ext |-> k.ext,
            heap |-> k.heap,
            audited |-> hasExtension /\ eng.create_audit_event] : k \in outcomes} : TRUE

(***************************************************************************)
(* DataSegmentationModule and DataSegmentationModuleRegistry.              *)
(* A module object is [id, enabled, categories, purposes], its categories  *)
(* and purposes sequences of InformationCategorySetting                    *)
(* [act_code, system, enabled].  The module objects live in a store        *)
(* mods: reference -> module; a registry is [modules], the references in   *)
(* priority order, so that one object registered twice is one object.      *)
(***************************************************************************)
InformationCategorySetting(act_code, system, enabled) ==
    [act_code |-> act_code, system |-> system, enabled |-> enabled]

DataSegmentationModule(id, enabled, categories, purposes) ==
    [id |-> id, enabled |-> enabled, categories |-> categories, purposes |-> purposes]

\* settings.find(c => c.act_code === code) || null: the position, 0 for null.
SettingForCode(settings, code) ==
    LET hits == {k \in 1..Len(settings) : settings[k].act_code = code}
    IN IF hits = {} THEN 0 ELSE CHOOSE k \in hits : \A j \in hits : k <= j

categoryForCode(m, code) == SettingForCode(m.categories, code)

purposeForCode(m, code) == SettingForCode(m.purposes, code)

Registry(modules) == [modules |-> modules]

addModule(r, ref) == [r EXCEPT !.modules = Append(@, ref)]

\* (mutant: a negative priority is not raised to 0 and splice counts it
\* from the end of the list)
addModuleAt_NoClamp(r, ref, priority) ==
    LET n == Len(r.modules)
        p == IF priority < 0 THEN (IF n + priority < 0 THEN 0 ELSE n + priority)
             ELSE priority
    IN IF p >= n
       THEN [r EXCEPT !.modules = Append(@, ref)]
       ELSE [r EXCEPT !.modules = SubSeq(@, 1, p) \o <<ref>> \o SubSeq(@, p + 1, Len(@))]
addModuleAt(r, ref, priority) ==
    LET p == IF priority < 0 THEN 0 ELSE priority
    IN IF p >= Len(r.modules)
       THEN [r EXCEPT !.modules = Append(@, ref)]
       ELSE [r EXCEPT !.modules = SubSeq(@, 1, p) \o <<ref>> \o SubSeq(@, p + 1, Len(@))]

\* modules.findIndex(m => m.id === moduleId), counted from 1; 0: none.
ModuleIndex(r, mods, moduleId) ==
    LET hits == {i \in 1..Len(r.modules) : mods[r.modules[i]].id = moduleId}
    IN IF hits = {} THEN 0 ELSE CHOOSE i \in hits : \A j \in hits : i <= j

\* The result is [registry, result].
removeModule(r, mods, moduleId) ==
    LET index == ModuleIndex(r, mods, moduleId)
    IN IF index >= 1
       THEN [registry |-> [r EXCEPT !.modules =
                              SubSeq(@, 1, index - 1) \o SubSeq(@, index + 1, Len(@))],
             result |-> TRUE]
       ELSE [registry |-> r, result |-> FALSE]

\* getModule: [found, ref].
getModule(r, mods, moduleId) ==
    LET index == ModuleIndex(r, mods, moduleId)
    IN IF index >= 1 THEN [found |-> TRUE, ref |-> r.modules[index]]
       ELSE [found |-> FALSE, ref |-> ""]

\* (mutant: every registered module is enabled)
enableModule_Every(r, mods, moduleId) ==
    LET m == getModule(r, mods, moduleId)
    IN IF m.found
       THEN [mods |-> [x \in DOMAIN mods |->
                         IF \E i \in 1..Len(r.modules) : r.modules[i] = x
                         THEN [mods[x] EXCEPT !.enabled = TRUE] ELSE mods[x]],
             result |-> TRUE]
       ELSE [mods |-> mods, result |-> FALSE]
\* The result is [mods, result].
enableModule(r, mods, moduleId) ==
    LET m == getModule(r, mods, moduleId)
    IN IF m.found
       THEN [mods |-> [mods EXCEPT ![m.ref].enabled = TRUE], result |-> TRUE]
       ELSE [mods |-> mods, result |-> FALSE]

disableModule(r, mods, moduleId) ==
    LET m == getModule(r, mods, moduleId)
    IN IF m.found
       THEN [mods |-> [mods EXCEPT ![m.ref].enabled = FALSE], result |-> TRUE]
       ELSE [mods |-> mods, result |-> FALSE]

\* A setting found in a module: the module's reference and the position of
\* the setting in the module's list; NoSetting is null.
NoSetting == [has |-> FALSE, ref |-> "", at |-> 0]
Setting(ref, at) == [has |-> TRUE, ref |-> ref, at |-> at]

\* (mutant: the disabled modules are searched as well)
findCategoryByCode_Disabled(r, mods, code) ==
    LET hits == {i \in 1..Len(r.modules) : categoryForCode(mods[r.modules[i]], code) # 0}
    IN IF hits = {} THEN NoSetting
       ELSE LET i == CHOOSE x \in hits : \A y \in hits : x <= y
            IN Setting(r.modules[i], categoryForCode(mods[r.modules[i]], code))
findCategoryByCode(r, mods, code) ==
    LET hits == {i \in 1..Len(r.modules) :
                    /\ mods[r.modules[i]].enabled
                    /\ categoryForCode(mods[r.modules[i]], code) # 0}
    IN IF hits = {} THEN NoSetting
       ELSE LET i == CHOOSE x \in hits : \A y \in hits : x <= y
            IN Setting(r.modules[i], categoryForCode(mods[r.modules[i]], code))

findPurposeByCode(r, mods, code) ==
    LET hits == {i \in 1..Len(r.modules) :
                    /\ mods[r.modules[i]].enabled
                    /\ purposeForCode(mods[r.modules[i]], code) # 0}
    IN IF hits = {} THEN NoSetting
       ELSE LET i == CHOOSE x \in hits : \A y \in hits : x <= y
            IN Setting(r.modules[i], purposeForCode(mods[r.modules[i]], code))

\* The settings of the enabled modules, in priority order.
getAllCategories(r, mods) ==
    Flat([i \in 1..Len(r.modules) |->
            IF mods[r.modules[i]].enabled THEN mods[r.modules[i]].categories ELSE <<>>])

getAllPurposes(r, mods) ==
    Flat([i \in 1..Len(r.modules) |->
            IF mods[r.modules[i]].enabled THEN mods[r.modules[i]].purposes ELSE <<>>])

(***************************************************************************)
(* computeConsentDecisionsForDocument.  A provision here is                *)
(* [securityLabel, purpose], each [has, list] with list a sequence of      *)
(* codings; the temporary module and the provisions are written to as the  *)
(* code writes to them.                                                    *)
(***************************************************************************)
NoCodings == [has |-> FALSE, list |-> <<>>]
Codings(list) == [has |-> TRUE, list |-> list]

DataProvision(securityLabel, purpose) ==
    [securityLabel |-> securityLabel, purpose |-> purpose]

\* The settings of a list whose act_code occurs for the first time.
FirstByCode(settings) ==
    SelectSeq([k \in 1..Len(settings) |->
                 [s |-> settings[k],
                  first |-> \A j \in 1..(k - 1) : settings[j].act_code # settings[k].act_code]],
              LAMBDA x : x.first)

createFromRegistry(r, mods) ==
    LET categories == FirstByCode(getAllCategories(r, mods))
        purposes == FirstByCode(getAllPurposes(r, mods))
    IN DataSegmentationModule("temp", TRUE,
          [k \in 1..Len(categories) |-> categories[k].s],
          [k \in 1..Len(purposes) |-> purposes[k].s])

\* The settings all disabled, then those named by a coding's code enabled.
ApplyCodings(settings, codings) ==
    [k \in 1..Len(settings) |->
        [settings[k] EXCEPT !.enabled =
            \E c \in 1..Len(codings) : settings[k].act_code = codings[c].code]]

\* The result is [module, provision]: a missing list is written as [].
loadCategoriesFromConsentProvision(m, provision) ==
    LET p == [provision EXCEPT !.securityLabel = Codings(@.list)]
    IN [module |-> [m EXCEPT !.categories = ApplyCodings(@, p.securityLabel.list)],
        provision |-> p]

loadPurposesFromConsentProvision(m, provision) ==
    LET p == [provision EXCEPT !.purpose = Codings(@.list)]
    IN [module |-> [m EXCEPT !.purposes = ApplyCodings(@, p.purpose.list)],
        provision |-> p]

loadAllFromConsentProvision(m, provision) ==
    LET c == loadCategoriesFromConsentProvision(m, provision)
    IN loadPurposesFromConsentProvision(c.module, c.provision)

sharableForPurpose(p, c) ==
    /\ p.purpose.has
    /\ \E k \in 1..Len(p.purpose.list) :
          c.system = p.purpose.list[k].system /\ c.act_code = p.purpose.list[k].code

shouldShareFromPurposesUnit(r, mods, p) ==
    \E k \in 1..Len(getAllPurposes(r, mods)) :
        /\ getAllPurposes(r, mods)[k].enabled
        /\ sharableForPurpose(p, getAllPurposes(r, mods)[k])

\* The codes of the redaction obligation built for a labeled unit.
RedactionCodes(tmpModule, decision) ==
    LET includeEnabled == decision = "permit"
        cs == SelectSeq(tmpModule.categories,
                        LAMBDA c : IF includeEnabled THEN ~c.enabled ELSE c.enabled)
    IN [k \in 1..Len(cs) |-> Coding(cs[k].system, cs[k].act_code)]

\* The summary of the card one unit gets under one provision.
UnitDecision(doc, decision, tmpModule, p, r, mods, unit) ==
    LET unitLabels == getSecurityLabelsForUnit(doc, unit.id)
        shouldShare ==
            IF Len(unitLabels) > 0
            THEN /\ ~shouldRedactUnit(doc, unit.id, RedactionCodes(tmpModule, decision))
                 /\ shouldShareFromPurposesUnit(r, mods, p)
            ELSE decision = "permit" /\ shouldShareFromPurposesUnit(r, mods, p)
    IN IF shouldShare THEN CONSENT_PERMIT ELSE CONSENT_DENY

\* (mutant: an id keeps the first card assigned to it)
LastAssigned_First(assigned) ==
    [id \in {assigned[k].id : k \in 1..Len(assigned)} |->
        LET hits == {k \in 1..Len(assigned) : assigned[k].id = id}
        IN assigned[CHOOSE k \in hits : \A j \in hits : k <= j].card]

\* The map a sequence of assignments consentDecisions[id] = card leaves.
LastAssigned(assigned) ==
    [id \in {assigned[k].id : k \in 1..Len(assigned)} |->
        LET hits == {k \in 1..Len(assigned) : assigned[k].id = id}
        IN assigned[CHOOSE k \in hits : \A j \in hits : j <= k].card]

\* (mutant: without provisions only a permit root decision permits)
computeConsentDecisionsForDocument_UnsetDenies(doc, consent, r, mods) ==
    LET units == getLabelableUnits(doc)
    IN IF consent.provision.has
       THEN LET decision == IF consent.decision = "unset" THEN "deny" ELSE consent.decision
                list == consent.provision.list
                P[i \in 0..Len(list)] ==
                    IF i = 0
                    THEN [tmp |-> createFromRegistry(r, mods), list |-> list, assigned |-> <<>>]
                    ELSE LET l == loadAllFromConsentProvision(P[i - 1].tmp, list[i])
                         IN [tmp |-> l.module,
                             list |-> [P[i - 1].list EXCEPT ![i] = l.provision],
                             assigned |-> P[i - 1].assigned \o
                                [k \in 1..Len(units) |->
                                    [id |-> units[k].id,
                                     card |-> UnitDecision(doc, decision, l.module, l.provision,
                                                           r, mods, units[k])]]]
            IN [consentDecisions |-> LastAssigned(P[Len(list)].assigned),
                consent |-> [consent EXCEPT !.decision = decision,
                                            !.provision.list = P[Len(list)].list]]
       ELSE [consentDecisions |->
                LastAssigned([k \in 1..Len(units) |->
                    [id |-> units[k].id,
                     card |-> IF consent.decision = "permit" THEN CONSENT_PERMIT
                              ELSE CONSENT_DENY]]),
             consent |-> consent]

\* The result is [consentDecisions, consent]: the map from unit id to card
\* summary and the consent as the call leaves it.
computeConsentDecisionsForDocument(doc, consent, r, mods) ==
    LET units == getLabelableUnits(doc)
    IN IF consent.provision.has
       THEN LET decision == IF consent.decision = "unset" THEN "deny" ELSE consent.decision
                list == consent.provision.list
                P[i \in 0..Len(list)] ==
                    IF i = 0
                    THEN [tmp |-> createFromRegistry(r, mods), list |-> list, assigned |-> <<>>]
                    ELSE LET l == loadAllFromConsentProvision(P[i - 1].tmp, list[i])
                         IN [tmp |-> l.module,
                             list |-> [P[i - 1].list EXCEPT ![i] = l.provision],
                             assigned |-> P[i - 1].assigned \o
                                [k \in 1..Len(units) |->
                                    [id |-> units[k].id,
                                     card |-> UnitDecision(doc, decision, l.module, l.provision,
                                                           r, mods, units[k])]]]
            IN [consentDecisions |-> LastAssigned(P[Len(list)].assigned),
                consent |-> [consent EXCEPT !.decision = decision,
                                            !.provision.list = P[Len(list)].list]]
       ELSE [consentDecisions |->
                LastAssigned([k \in 1..Len(units) |->
                    [id |-> units[k].id,
                     card |-> IF consent.decision = "deny" THEN CONSENT_DENY
                              ELSE CONSENT_PERMIT]]),
             consent |-> consent]

(***************************************************************************)
(* DataSegmentationModule.fromJson and the parent links of its settings.   *)
(* A descriptor entry is [code, parent], parent a code or NoParent; a      *)
(* built setting is [act_code, parent], parent the position of the setting *)
(* object it refers to in the module's list (0: undefined).  A loop that   *)
(* never ends is the result [terminates |-> FALSE].                        *)
(***************************************************************************)
NoParent == ""
CategoryJson(code, parent) == [code |-> code, parent |-> parent]

\* parentMap.get(code) after the first pass: a later entry of the same code
\* has replaced an earlier one.  0: no entry.
ParentMapGet(json, code) ==
    LET hits == {k \in 1..Len(json) : json[k].code = code}
    IN IF hits = {} THEN 0 ELSE CHOOSE k \in hits : \A j \in hits : j <= k

\* The settings fromJson builds from the categories (or the purposes) of a
\* descriptor: the second pass sets the parent of every entry that names one
\* in the map; an entry whose parent is not in the complete map had none in
\* the first pass either.
fromJson(json) ==
    [k \in 1..Len(json) |->
        [act_code |-> json[k].code,
         parent |-> IF json[k].parent = NoParent THEN 0
                    ELSE ParentMapGet(json, json[k].parent)]]

\* while (current) { ancestors.push(current); current = current.parent }
\* from position current, given up after fuel rounds.
RECURSIVE AncestorsFrom(_, _, _)
AncestorsFrom(settings, current, fuel) ==
    IF current = 0 THEN [terminates |-> TRUE, ancestors |-> <<>>]
    ELSE IF fuel = 0 THEN [terminates |-> FALSE, ancestors |-> <<>>]
    ELSE LET rest == AncestorsFrom(settings, settings[current].parent, fuel - 1)
         IN [terminates |-> rest.terminates,
             ancestors |-> IF rest.terminates THEN <<current>> \o rest.ancestors ELSE <<>>]

\* A walk that has not ended after as many rounds as there are settings has
\* come back to a setting it has visited and goes on for ever.
getAncestors(settings, k) == AncestorsFrom(settings, settings[k].parent, Len(settings))

\* The walk of isDescendantOf: it ends at the first ancestor with the code
\* (all settings of a module are modelled with one system).
RECURSIVE DescendantFrom(_, _, _, _)
DescendantFrom(settings, current, code, fuel) ==
    IF current = 0 THEN [terminates |-> TRUE, value |-> FALSE]
    ELSE IF settings[current].act_code = code THEN [terminates |-> TRUE, value |-> TRUE]
    ELSE IF fuel = 0 THEN [terminates |-> FALSE, value |-> FALSE]
    ELSE DescendantFrom(settings, settings[current].parent, code, fuel - 1)

isDescendantOf(settings, k, category) ==
    DescendantFrom(settings, settings[k].parent, settings[category].act_code, Len(settings))

(***************************************************************************)
(* Values the specifications draw their inputs from.                       *)
(***************************************************************************)
\* Label keys: two systems with one code in common, one system with two codes.
K1 == Coding("s1", "A")
K2 == Coding("s1", "B")
K3 == Coding("s2", "A")

\* Clinical codings.
X1 == Coding("sn", "x")
X2 == Coding("sn", "y")
X3 == Coding("lo", "x")

\* Confidence values and thresholds, in tenths.
ConfLevels == {0, 5, 10}

NoBindings == <<>>

NoEngine ==
    [threshold |-> 5, redaction_enabled |-> FALSE, create_audit_event |-> FALSE,
     bindings |-> NoBindings, cardHasExtension |-> TRUE]

NoContext == [kind |-> "none"]

EmptyHeap == [r \in Refs |-> NoObject]

NoCard == [returned |-> FALSE, summary |-> NO_CONSENT, hasExtension |-> FALSE]

Idle == [name |-> "init"]

\* The module objects: two modules with overlapping categories and purposes
\* and a third object that has the id of the first.
ModuleRefs == {"m1", "m2", "m3"}

PUR == "http://terminology.hl7.org/CodeSystem/v3-ActReason"

Modules ==
    [x \in ModuleRefs |->
        IF x = "m1"
        THEN DataSegmentationModule("a", TRUE,
                <<InformationCategorySetting("A", "s1", TRUE),
                  InformationCategorySetting("B", "s1", TRUE)>>,
                <<InformationCategorySetting("TREAT", PUR, TRUE)>>)
        ELSE IF x = "m2"
        THEN DataSegmentationModule("b", TRUE,
                <<InformationCategorySetting("B", "s1", TRUE),
                  InformationCategorySetting("C", "s1", TRUE)>>,
                <<InformationCategorySetting("TREAT", PUR, TRUE),
                  InformationCategorySetting("HRESCH", PUR, TRUE)>>)
        ELSE DataSegmentationModule("a", TRUE,
                <<InformationCategorySetting("C", "s1", TRUE)>>,
                <<>>)]

NoModules == Modules

\* The state outside the inputs a specification draws.
Rest(vs) ==
    /\ ("registry" \in vs \/ registry = Registry(<<>>))
    /\ ("module" \in vs \/ module = NoModules)
    /\ ("now" \in vs \/ now = 1)
    /\ ("consents" \in vs \/ consents = <<>>)
    /\ ("ctx" \in vs \/ ctx = NoContext)
    /\ ("engine" \in vs \/ engine = NoEngine)
    /\ ("heap" \in vs \/ heap = EmptyHeap)
    /\ ("ext" \in vs \/ ext = NullExtension)
    /\ card = NoCard
    /\ audit = <<>>
    /\ op = Idle
    /\ nOps = 0

(***************************************************************************)
(* SpecFilter: one call of filterForApplicableConsents on a drawn list.    *)
(***************************************************************************)
\* Period bounds around the clock's two possible readings.
PeriodBounds == {Absent, Invalid} \cup {Instant(t) : t \in 0..2}

FilterConsents ==
    {Consent("active", st, en, "permit", NoProvision) : st \in PeriodBounds, en \in PeriodBounds}
    \cup {Consent("inactive", Absent, Absent, "permit", NoProvision)}

InitFilter ==
    /\ Rest({"consents"})
    /\ consents \in SeqsUpTo(FilterConsents, MaxConsents)

FilterForApplicableConsents ==
    /\ op.name = "init"
    /\ \E tickAt \in 0..(2 * Len(consents)) :
          op' = [name |-> "filter", tickAt |-> tickAt,
                 kept |-> filterForApplicableConsentsIdx(consents, tickAt),
                 reads |-> Readings(consents, tickAt)]
    /\ UNCHANGED <<registry, module, now, consents, ctx, engine, heap, ext, card, audit, nOps>>

NextFilter == FilterForApplicableConsents

SpecFilter == InitFilter /\ [][NextFilter]_vars

(***************************************************************************)
(* SpecDecision: one call of consentDecision on a drawn consent.           *)
(***************************************************************************)
DecisionConsents ==
    {Consent("active", Absent, Absent, d, pv) :
        d \in Decisions, pv \in {NoProvision} \cup {Provision(f) : f \in Forests}}

InitDecision ==
    /\ Rest({"consents"})
    /\ \E c \in DecisionConsents : consents = <<c>>

ConsentDecision ==
    /\ op.name = "init"
    /\ op' = [name |-> "decision", result |-> consentDecision(consents[1])]
    /\ UNCHANGED <<registry, module, now, consents, ctx, engine, heap, ext, card, audit, nOps>>

NextDecision == ConsentDecision

SpecDecision == InitDecision /\ [][NextDecision]_vars

(***************************************************************************)
(* Documents, bindings and engines the specifications draw from.           *)
(***************************************************************************)
B1 == Binding("b1", <<K1>>, <<<<Matcher("sn", "x", 10)>>>>, <<"p1">>)
B2 == Binding("b2", <<K1, K2>>, <<<<Matcher("sn", "y", 5)>>, <<Matcher("lo", "x", 0)>>>>, <<"p2">>)
\* A binding without an id whose label list repeats a label.
B3 == Binding("", <<K3, K3>>, <<<<Matcher("sn", "x", 10), Matcher("sn", "y", 10)>>>>, <<>>)

\* A binding with the id and the labels of B2, the labels in another order
\* (the same binding as a second module states it).
B4 == Binding("b2", <<K2, K1>>, <<<<Matcher("sn", "y", 5)>>>>, <<"p2">>)

BindingLists == {<<>>, <<B1, B2>>, <<B1, B2, B3>>}

\* A bundle the FHIR processor accepts: an entry with an id, an entry
\* without one that is labeled already, an entry without a resource.
FhirDocA ==
    Bundle("Bundle", TRUE,
           <<Entry(TRUE, Id("id", 1), <<X1>>, FALSE, <<>>),
             Entry(TRUE, NoId, <<X2>>, TRUE, <<Label("s1", "A", <<"p1">>)>>),
             Entry(FALSE, NoId, <<>>, FALSE, <<>>)>>)

\* A bundle whose second and third resources share an id.
FhirDocB ==
    Bundle("Bundle", TRUE,
           <<Entry(TRUE, Id("resource", 1), <<>>, TRUE, <<>>),
             Entry(TRUE, Id("id", 1), <<>>, FALSE, <<>>),
             Entry(TRUE, Id("id", 1), <<X1>>, TRUE, <<Label("s1", "B", <<>>)>>)>>)

\* An object with entries that is no 'Bundle': no processor accepts it.
LegacyBundle ==
    Bundle("Other", TRUE,
           <<Entry(TRUE, Id("id", 1), <<X1>>, FALSE, <<>>),
             Entry(TRUE, Id("id", 2), <<>>, TRUE, <<Label("s1", "A", <<>>)>>)>>)

\* A CDA document: a section with an entry, then a second section.
CdaDocA ==
    Cda(TRUE, Code("lo", "x"), NoConf,
        <<CdaNode("section", 1, Code("sn", "x"), NoConf),
          CdaNode("entry", 2, Code("sn", "y"), Conf(<<K1>>)),
          CdaNode("section", 1, NoCode, NoConf)>>)

\* A CDA document: a section with two entries and a nested section.
CdaDocB ==
    Cda(TRUE, NoCode, Conf(<<>>),
        <<CdaNode("section", 1, NoCode, Conf(<<K2>>)),
          CdaNode("entry", 2, Code("sn", "x"), NoConf),
          CdaNode("entry", 2, NoCode, NoConf),
          CdaNode("section", 2, Code("sn", "y"), NoConf)>>)

(***************************************************************************)
(* SpecProcess: one call of process on drawn consents, context and engine. *)
(***************************************************************************)
\* Active consents that start now or one instant later, and an inactive one.
\* No consent has an end, so only readings of the start test matter.
ProcessConsents ==
    {Consent("active", st, Absent, d, NoProvision) :
        st \in {Absent, Instant(2)}, d \in {"permit", "deny"}}
    \cup {Consent("active", Absent, Absent, "unspecified", NoProvision),
          Consent("active", Absent, Absent, "permit", Provision(<<Leaf>>)),
          Consent("inactive", Absent, Absent, "deny", NoProvision)}

\* The engine context and the caller's object.
ProcessContexts ==
    {<<[kind |-> "none"], NoObject>>,
     <<[kind |-> "raw"], RawContent>>,
     <<[kind |-> "document"], FhirDocA>>,
     <<[kind |-> "content"], LegacyBundle>>,
     <<[kind |-> "document"], CdaDocA>>,
     <<[kind |-> "content"], FhirDocA>>,
     <<[kind |-> "raw"], CdaDocA>>,
     <<[kind |-> "document"], FhirDocB>>}

\* A new Card carries an extension of its own, new ConsentExtension(null):
\* the Card's extension holds decision, obligations and the document content.
CardHasExtension == TRUE

ProcessEngines ==
    {[threshold |-> 5, redaction_enabled |-> r, create_audit_event |-> a,
      bindings |-> b, cardHasExtension |-> CardHasExtension] :
        r, a \in BOOLEAN, b \in {<<B1, B2>>, <<B2, B4>>}}

InitProcess ==
    /\ Rest({"consents", "ctx", "engine", "heap"})
    /\ consents \in SeqsUpTo(ProcessConsents, MaxConsents)
    /\ \E c \in ProcessContexts : ctx = c[1] /\ heap = [EmptyHeap EXCEPT !["orig"] = c[2]]
    /\ engine \in ProcessEngines

Process ==
    /\ op.name = "init"
    /\ \E tickAt \in 0..Len(consents) :
          \E r \in {process(consents, tickAt, ctx, heap, engine)} :
             /\ op' = [name |-> "process", tickAt |-> tickAt, threw |-> r.threw,
                       filtered |-> r.filtered, results |-> r.results]
             /\ card' = [returned |-> ~r.threw, summary |-> r.summary,
                         hasExtension |-> r.hasExtension]
             /\ ext' = r.ext
             /\ heap' = r.heap
             /\ audit' = IF r.audited
                         THEN Append(audit, [outcome |-> r.ext.decision, consents |-> consents])
                         ELSE audit
    /\ UNCHANGED <<registry, module, now, consents, ctx, engine, nOps>>

NextProcess == Process

SpecProcess == InitProcess /\ [][NextProcess]_vars

(***************************************************************************)
(* SpecSteps: one call of process, statement by statement.  op.name is the *)
(* position in the method and op.done the steps run so far.                *)
(***************************************************************************)
StepConsents ==
    {Consent("active", Absent, Absent, "permit", NoProvision),
     Consent("active", Instant(2), Absent, "deny", NoProvision),
     Consent("inactive", Absent, Absent, "deny", NoProvision)}

InitSteps ==
    /\ Rest({"consents", "ctx", "engine", "heap"})
    /\ consents \in SeqsUpTo(StepConsents, MaxConsents)
    /\ \E c \in ProcessContexts : ctx = c[1] /\ heap = [EmptyHeap EXCEPT !["orig"] = c[2]]
    /\ engine \in ProcessEngines

\* filterForApplicableConsents, the decisions and the choice of the Card.
StepFilter ==
    /\ op.name = "init"
    /\ \E tickAt \in 0..Len(consents) :
          \E filtered \in {filterForApplicableConsentsIdx(consents, tickAt)} :
             /\ card' = [returned |-> FALSE,
                         summary |-> IF Len(filtered) > 0
                                     THEN Aggregate([i \in 1..Len(filtered) |->
                                                       consentDecision(consents[filtered[i]])])
                                     ELSE NO_CONSENT,
                         hasExtension |-> engine.cardHasExtension]
             /\ op' = [name |-> "filtered", tickAt |-> tickAt, done |-> <<"filter">>]
    /\ UNCHANGED <<registry, module, now, consents, ctx, engine, heap, ext, audit, nOps>>

\* Get or create the ProcessableDocument and attach a copy to the Card.
StepNormalize ==
    /\ op.name = "filtered"
    /\ \E hasDocument \in {\/ ctx.kind = "document"
                            \/ (ctx.kind \in {"content", "raw"} /\ findProcessor(heap["orig"]))} :
          \E x \in {IF hasDocument \/ ctx.kind = "content"
                     THEN ConsentExtension(heap, "orig", hasDocument)
                     ELSE [ext |-> ext, heap |-> heap]} :
             /\ ext' = IF hasDocument \/ ctx.kind = "content"
                       THEN [x.ext EXCEPT !.decision = card.summary]
                       ELSE x.ext
             /\ heap' = x.heap
             /\ card' = [card EXCEPT !.hasExtension =
                                        @ \/ hasDocument \/ ctx.kind = "content"]
    /\ op' = [op EXCEPT !.name = "normalized", !.done = Append(@, "normalize")]
    /\ UNCHANGED <<registry, module, now, consents, ctx, engine, audit, nOps>>

\* if (card.extension) addSecurityLabels(...)
StepLabel ==
    /\ op.name = "normalized"
    /\ \E l \in {IF card.hasExtension
                   THEN addSecurityLabels(ext, heap, engine.bindings, engine.threshold)
                   ELSE [ext |-> ext, heap |-> heap]} :
          ext' = l.ext /\ heap' = l.heap
    /\ op' = [op EXCEPT !.name = "labeled",
                        !.done = IF card.hasExtension THEN Append(@, "label") ELSE @]
    /\ UNCHANGED <<registry, module, now, consents, ctx, engine, card, audit, nOps>>

\* if (redaction_enabled && card.extension) redactFromLabels(card.extension)
StepRedact ==
    /\ op.name = "labeled"
    /\ engine.redaction_enabled /\ card.hasExtension
    /\ \E l \in {redactFromLabels(ext, heap)} : ext' = l.ext /\ heap' = l.heap
    /\ op' = [op EXCEPT !.name = "redacted", !.done = Append(@, "redact")]
    /\ UNCHANGED <<registry, module, now, consents, ctx, engine, card, audit, nOps>>

\* Update the number of bundle resources.
StepCount ==
    /\ \/ op.name = "redacted"
       \/ op.name = "labeled" /\ ~(engine.redaction_enabled /\ card.hasExtension)
    /\ \E l \in {IF card.hasExtension
                   THEN UpdateTotal([ext |-> ext, heap |-> heap])
                   ELSE [ext |-> ext, heap |-> heap]} :
          ext' = l.ext /\ heap' = l.heap
    /\ op' = [op EXCEPT !.name = "counted", !.done = Append(@, "count")]
    /\ UNCHANGED <<registry, module, now, consents, ctx, engine, card, audit, nOps>>

\* (mutant: the audit event is created whatever create_audit_event says)
StepAudit_Unconditional ==
    /\ op.name = "counted"
    /\ card.hasExtension
    /\ audit' = Append(audit, [outcome |-> ext.decision, consents |-> consents])
    /\ op' = [op EXCEPT !.name = "audited", !.done = Append(@, "audit")]
    /\ UNCHANGED <<registry, module, now, consents, ctx, engine, heap, ext, card, nOps>>

\* outcodeCode = card.extension.decision; createAuditEvent if enabled.
StepAudit ==
    /\ op.name = "counted"
    /\ card.hasExtension
    /\ engine.create_audit_event
    /\ audit' = Append(audit, [outcome |-> ext.decision, consents |-> consents])
    /\ op' = [op EXCEPT !.name = "audited", !.done = Append(@, "audit")]
    /\ UNCHANGED <<registry, module, now, consents, ctx, engine, heap, ext, card, nOps>>

\* return card
StepReturn ==
    /\ \/ op.name = "audited"
       \/ op.name = "counted" /\ card.hasExtension /\ ~engine.create_audit_event
    /\ card' = [card EXCEPT !.returned = TRUE]
    /\ op' = [op EXCEPT !.name = "returned", !.done = Append(@, "return")]
    /\ UNCHANGED <<registry, module, now, consents, ctx, engine, heap, ext, audit, nOps>>

NextSteps ==
    \/ StepFilter
    \/ StepNormalize
    \/ StepLabel
    \/ StepRedact
    \/ StepCount
    \/ StepAudit
    \/ StepReturn

SpecSteps == InitSteps /\ [][NextSteps]_vars

(***************************************************************************)
(* SpecRegistry: a DataSegmentationModuleRegistry constructed on a list of *)
(* modules, then a sequence of its operations.                             *)
(***************************************************************************)
\* The lists handed to the constructor: modules of distinct ids.
ConstructorModules ==
    {ms \in SeqsUpTo(ModuleRefs, MaxModules - 1) :
        \A i, j \in 1..Len(ms) : i # j => Modules[ms[i]].id # Modules[ms[j]].id}

\* The ids and codes the operations are called with; "z" and "NONE" are unknown.
ModuleIds == {"a", "b", "z"}
CategoryCodes == {"A", "B", "C", "NONE"}
PurposeCodes == {"TREAT", "HRESCH", "NONE"}

InitRegistry ==
    /\ Rest({"registry", "module"})
    /\ \E ms \in ConstructorModules : registry = Registry(ms)
    /\ \E en \in [ModuleRefs -> BOOLEAN] :
          module = [x \in ModuleRefs |-> [Modules[x] EXCEPT !.enabled = en[x]]]

AddModule ==
    /\ nOps < MaxOps
    /\ Len(registry.modules) < MaxModules
    /\ \E ref \in ModuleRefs :
          /\ registry' = addModule(registry, ref)
          /\ op' = [name |-> "addModule", ref |-> ref]
    /\ nOps' = nOps + 1
    /\ UNCHANGED <<module, now, consents, ctx, engine, heap, ext, card, audit>>

AddModuleAt ==
    /\ nOps < MaxOps
    /\ Len(registry.modules) < MaxModules
    /\ \E ref \in ModuleRefs, priority \in -1..MaxModules :
          /\ registry' = addModuleAt(registry, ref, priority)
          /\ op' = [name |-> "addModuleAt", ref |-> ref, priority |-> priority]
    /\ nOps' = nOps + 1
    /\ UNCHANGED <<module, now, consents, ctx, engine, heap, ext, card, audit>>

RemoveModule ==
    /\ nOps < MaxOps
    /\ \E moduleId \in ModuleIds :
          \E r \in {removeModule(registry, module, moduleId)} :
             /\ registry' = r.registry
             /\ op' = [name |-> "removeModule", id |-> moduleId, result |-> r.result]
    /\ nOps' = nOps + 1
    /\ UNCHANGED <<module, now, consents, ctx, engine, heap, ext, card, audit>>

EnableModule ==
    /\ nOps < MaxOps
    /\ \E moduleId \in ModuleIds :
          \E r \in {enableModule(registry, module, moduleId)} :
             /\ module' = r.mods
             /\ op' = [name |-> "enableModule", id |-> moduleId, result |-> r.result]
    /\ nOps' = nOps + 1
    /\ UNCHANGED <<registry, now, consents, ctx, engine, heap, ext, card, audit>>

DisableModule ==
    /\ nOps < MaxOps
    /\ \E moduleId \in ModuleIds :
          \E r \in {disableModule(registry, module, moduleId)} :
             /\ module' = r.mods
             /\ op' = [name |-> "disableModule", id |-> moduleId, result |-> r.result]
    /\ nOps' = nOps + 1
    /\ UNCHANGED <<registry, now, consents, ctx, engine, heap, ext, card, audit>>

FindCategoryByCode ==
    /\ nOps < MaxOps
    /\ \E code \in CategoryCodes :
          op' = [name |-> "findCategoryByCode", code |-> code,
                 result |-> findCategoryByCode(registry, module, code)]
    /\ nOps' = nOps + 1
    /\ UNCHANGED <<registry, module, now, consents, ctx, engine, heap, ext, card, audit>>

FindPurposeByCode ==
    /\ nOps < MaxOps
    /\ \E code \in PurposeCodes :
          op' = [name |-> "findPurposeByCode", code |-> code,
                 result |-> findPurposeByCode(registry, module, code)]
    /\ nOps' = nOps + 1
    /\ UNCHANGED <<registry, module, now, consents, ctx, engine, heap, ext, card, audit>>

NextRegistry ==
    \/ AddModule
    \/ AddModuleAt
    \/ RemoveModule
    \/ EnableModule
    \/ DisableModule
    \/ FindCategoryByCode
    \/ FindPurposeByCode

SpecRegistry == InitRegistry /\ [][NextRegistry]_vars

(***************************************************************************)
(* SpecProvider: a module provider over a registry, the engine that labels *)
(* with the provider's bindings, and registry operations in between.       *)
(* engine.bindings is the provider's bindings field; ctx.snapshot records  *)
(* the modules that were enabled when reinitialize last ran.               *)
(***************************************************************************)
\* module.rules.bindings of the module objects; m3 has no rules.
ModuleRules == [x \in ModuleRefs |-> IF x = "m1" THEN <<B1>> ELSE IF x = "m2" THEN <<B2>> ELSE <<>>]

\* this.modules.filter(m => m.isEnabled())
getEnabledModules(r, mods) ==
    SelectSeq(r.modules, LAMBDA ref : mods[ref].enabled)

\* (mutant: the bindings of the disabled modules are loaded as well)
reinitialize_EveryModule(r, mods) ==
    Flat([i \in 1..Len(r.modules) |-> ModuleRules[r.modules[i]]])

\* The provider's bindings after reinitialize().
reinitialize(r, mods) ==
    Flat([i \in 1..Len(getEnabledModules(r, mods)) |->
            ModuleRules[getEnabledModules(r, mods)[i]]])

InitProvider ==
    /\ Rest({"consents", "registry", "ctx", "heap"})
    /\ consents = <<Consent("active", Absent, Absent, "permit", NoProvision)>>
    /\ registry = Registry(<<"m1", "m2">>)
    /\ ctx = [kind |-> "document", snapshot |-> <<>>]
    /\ \E d \in {FhirDocA, CdaDocA} : heap = [EmptyHeap EXCEPT !["orig"] = d]

Reinitialize ==
    /\ nOps < MaxOps
    /\ engine' = [engine EXCEPT !.bindings = reinitialize(registry, module)]
    /\ ctx' = [ctx EXCEPT !.snapshot = getEnabledModules(registry, module)]
    /\ op' = [name |-> "reinitialize"]
    /\ nOps' = nOps + 1
    /\ UNCHANGED <<registry, module, now, consents, heap, ext, card, audit>>

\* A process call on the caller's document, with the provider as it is.
ProviderProcess ==
    /\ nOps < MaxOps
    /\ \E r \in {process(consents, 0, ctx, [EmptyHeap EXCEPT !["orig"] = heap["orig"]], engine)} :
          /\ op' = [name |-> "process", tickAt |-> 0, threw |-> r.threw,
                    filtered |-> r.filtered, results |-> r.results]
          /\ card' = [returned |-> ~r.threw, summary |-> r.summary,
                      hasExtension |-> r.hasExtension]
          /\ ext' = r.ext
          /\ heap' = r.heap
    /\ nOps' = nOps + 1
    /\ UNCHANGED <<registry, module, now, consents, ctx, engine, audit>>

NextProvider ==
    \/ Reinitialize
    \/ ProviderProcess
    \/ AddModule
    \/ RemoveModule
    \/ EnableModule
    \/ DisableModule

SpecProvider == InitProvider /\ [][NextProvider]_vars

(***************************************************************************)
(* SpecDecisions: one call of computeConsentDecisionsForDocument on a      *)
(* drawn consent, document and registry.                                   *)
(***************************************************************************)
DataProvisions ==
    {DataProvision(l, u) :
        l \in {NoCodings, Codings(<<K1>>), Codings(<<K2>>)},
        u \in {NoCodings, Codings(<<Coding(PUR, "TREAT")>>), Codings(<<Coding(PUR, "HRESCH")>>)}}

DecisionsConsents ==
    {Consent("active", Absent, Absent, d, p) :
        d \in Decisions,
        p \in {NoProvision} \cup {Provision(l) : l \in SeqsUpTo(DataProvisions, MaxProvisions)}}

InitDecisions ==
    /\ Rest({"consents", "registry", "module", "heap"})
    /\ \E c \in DecisionsConsents : consents = <<c>>
    /\ registry = Registry(<<"m1", "m2">>)
    /\ \E en \in [ModuleRefs -> BOOLEAN] :
          /\ en["m3"]
          /\ module = [x \in ModuleRefs |-> [Modules[x] EXCEPT !.enabled = en[x]]]
    /\ \E d \in {FhirDocA, FhirDocB, CdaDocA} : heap = [EmptyHeap EXCEPT !["orig"] = d]

ComputeConsentDecisionsForDocument ==
    /\ op.name = "init"
    /\ \E r \in {computeConsentDecisionsForDocument(heap["orig"], consents[1], registry, module)} :
          /\ consents' = <<r.consent>>
          /\ op' = [name |-> "computeConsentDecisionsForDocument",
                    consentDecisions |-> r.consentDecisions]
    /\ UNCHANGED <<registry, module, now, ctx, engine, heap, ext, card, audit, nOps>>

NextDecisions == ComputeConsentDecisionsForDocument

SpecDecisions == InitDecisions /\ [][NextDecisions]_vars

(***************************************************************************)
(* SpecHierarchy: a module built by fromJson from a drawn descriptor, then *)
(* ancestor and descendant queries on its categories.                      *)
(***************************************************************************)
SettingCodes == {"HEALTH", "MENTAL", "ANXIETY"}

DescriptorEntries ==
    {CategoryJson(c, q) : c \in SettingCodes, q \in SettingCodes \cup {NoParent}}

InitHierarchy ==
    /\ Rest({"ctx"})
    /\ \E json \in SeqsUpTo(DescriptorEntries, MaxSettings) :
          ctx = [kind |-> "module", json |-> json, categories |-> fromJson(json)]

GetAncestors ==
    /\ op.name = "init"
    /\ \E k \in 1..Len(ctx.categories) :
          op' = [name |-> "getAncestors", setting |-> k,
                 result |-> getAncestors(ctx.categories, k)]
    /\ nOps' = nOps + 1
    /\ UNCHANGED <<registry, module, now, consents, ctx, engine, heap, ext, card, audit>>

IsDescendantOf ==
    /\ op.name = "init"
    /\ \E k, c \in 1..Len(ctx.categories) :
          op' = [name |-> "isDescendantOf", setting |-> k, category |-> c,
                 result |-> isDescendantOf(ctx.categories, k, c)]
    /\ nOps' = nOps + 1
    /\ UNCHANGED <<registry, module, now, consents, ctx, engine, heap, ext, card, audit>>

NextHierarchy ==
    \/ GetAncestors
    \/ IsDescendantOf

SpecHierarchy == InitHierarchy /\ [][NextHierarchy]_vars

(***************************************************************************)
(* SpecBinding: one call of applicableBindingsFor on drawn codings,        *)
(* bindings and threshold.                                                 *)
(***************************************************************************)
\* A coding's optional confidence: undefined for the codings the document
\* processors extract, a number when an upstream step supplied one.
NoConfidence == [has |-> FALSE, v |-> 0]
Confidence(v) == [has |-> TRUE, v |-> v]

InputCoding(system, code, confidence) ==
    [system |-> system, code |-> code, confidence |-> confidence]

InputCodings ==
    {InputCoding(k.system, k.code, c) :
        k \in {X1, X2}, c \in {NoConfidence, Confidence(0), Confidence(10)}}

MatcherBindings ==
    {Binding("b", <<K1>>, <<<<Matcher(k.system, k.code, c)>>>>, <<>>) :
        k \in {X1, X2}, c \in ConfLevels}
    \cup {B2}

InitBinding ==
    /\ Rest({"ctx", "engine"})
    /\ \E cs \in SeqsUpTo(InputCodings, MaxCodings) :
          ctx = [kind |-> "codings", codings |-> cs]
    /\ \E bs \in SeqsUpTo(MatcherBindings, 2), t \in ConfLevels :
          engine = [NoEngine EXCEPT !.bindings = bs, !.threshold = t]

ApplicableBindingsFor ==
    /\ op.name = "init"
    /\ op' = [name |-> "match",
              result |-> applicableBindingsFor(ctx.codings, engine.bindings,
                                               engine.threshold)]
    /\ UNCHANGED <<registry, module, now, consents, ctx, engine, heap, ext, card, audit, nOps>>

NextBinding == ApplicableBindingsFor

SpecBinding == InitBinding /\ [][NextBinding]_vars

(***************************************************************************)
(* SpecDoc: a ConsentExtension built over a drawn document, then up to     *)
(* MaxOps calls of applySecurityLabelsToUnit on its document, of           *)
(* addSecurityLabels and of redactFromLabels, in any order.                *)
(***************************************************************************)
InitDocs == {FhirDocA, FhirDocB, LegacyBundle, CdaDocA, CdaDocB}

\* Obligations the extension holds before any labeling.
InitObligations ==
    {<<>>,
     <<Obligation(REDACTION_OBLIGATION, <<K1>>)>>,
     <<Obligation(Coding("other", "REDACT"), <<K1, K2>>)>>}

\* The label lists addSecurityLabels builds from the engine's bindings.
LabelLists == {LabelsToApply(b) : b \in {B1, B2, B3}}

\* An id no unit answers to.
UnknownId == Id("entry", 7)

InitDoc ==
    /\ Rest({"engine", "heap", "ext"})
    /\ engine = [NoEngine EXCEPT !.bindings = <<B1, B2, B3>>]
    /\ \E d \in InitDocs, asDocument \in BOOLEAN, o \in InitObligations :
          /\ asDocument => findProcessor(d)
          /\ ~asDocument => d.type = "bundle"
          /\ LET x == ConsentExtension([EmptyHeap EXCEPT !["orig"] = d], "orig", asDocument)
             IN /\ ext = [x.ext EXCEPT !.obligations = o]
                /\ heap = x.heap

\* The ids applySecurityLabelsToUnit is called with.
UnitIds(d) == {getLabelableUnits(d)[k].id : k \in 1..Len(getLabelableUnits(d))} \cup {UnknownId}

ApplySecurityLabelsToUnit ==
    /\ nOps < MaxOps
    /\ ext.hasDoc
    /\ \E unitId \in UnitIds(heap[ext.doc]), labels \in LabelLists :
          /\ heap' = [heap EXCEPT ![ext.doc] = applySecurityLabelsToUnit(@, unitId, labels)]
          /\ op' = [name |-> "apply", unit |-> unitId, labels |-> labels,
                    repeat |-> /\ op.name = "apply"
                               /\ op.unit = unitId
                               /\ op.labels = labels]
    /\ nOps' = nOps + 1
    /\ UNCHANGED <<registry, module, now, consents, ctx, engine, ext, card, audit>>

AddSecurityLabels ==
    /\ nOps < MaxOps
    /\ \E r \in {addSecurityLabels(ext, heap, engine.bindings, engine.threshold)} :
          /\ ext' = r.ext
          /\ heap' = r.heap
    /\ op' = [name |-> "label", repeat |-> op.name = "label"]
    /\ nOps' = nOps + 1
    /\ UNCHANGED <<registry, module, now, consents, ctx, engine, card, audit>>

RedactFromLabels ==
    /\ nOps < MaxOps
    /\ \E r \in {redactFromLabels(ext, heap)} :
          /\ ext' = r.ext
          /\ heap' = r.heap
    /\ op' = [name |-> "redact"]
    /\ nOps' = nOps + 1
    /\ UNCHANGED <<registry, module, now, consents, ctx, engine, card, audit>>

NextDoc ==
    \/ ApplySecurityLabelsToUnit
    \/ AddSecurityLabels
    \/ RedactFromLabels

SpecDoc == InitDoc /\ [][NextDoc]_vars

(***************************************************************************)
(* Claims about the consent decision evaluator.                            *)
(***************************************************************************)
\* The decisions of the provisions of a tree: a provision with no provision
\* below it is a leaf, and its decision is the mode its level is read under
\* (the opposite of the level above, the root's decision at the top).
RECURSIVE LeafCount(_, _, _)
LeafCount(want, mode, provisions) ==
    LET n[i \in 0..Len(provisions)] ==
            IF i = 0 THEN 0
            ELSE n[i - 1] +
                 (IF provisions[i].sub = <<>>
                  THEN (IF mode = want THEN 1 ELSE 0)
                  ELSE LeafCount(want, Opposite(mode), provisions[i].sub))
    IN n[Len(provisions)]

\* C2: consentDecision of a consent whose provision tree has one deny leaf is
\* deny, whatever the number of permit leaves in the tree.
C2_DenyLeafDominates ==
    (/\ op.name = "decision"
     /\ consents[1].decision \in {"permit", "deny"}
     /\ consents[1].provision.has
     /\ LeafCount("deny", Opposite(consents[1].decision), consents[1].provision.list) = 1)
    => op.result = "deny"

\* C3: for a consent with no provisions consentDecision returns permit when
\* the root decision is permit, deny when it is deny and unspecified when it
\* is unset.
C3_NoProvisionsFollowsRoot ==
    (/\ op.name = "decision"
     /\ (~consents[1].provision.has \/ consents[1].provision.list = <<>>))
    => /\ consents[1].decision = "permit" => op.result = "permit"
       /\ consents[1].decision = "deny" => op.result = "deny"
       /\ consents[1].decision = "unset" => op.result = "unspecified"

C3_Witness ==
    /\ op.name = "decision"
    /\ ~consents[1].provision.has
    /\ consents[1].decision = "unset"
    /\ op.result = "unspecified"

\* C4: filterForApplicableConsents keeps a consent exactly when its status is
\* active, its period start is absent or not later than the instant read for
\* it, and its period end is absent or not earlier than the instant read for
\* it (both bounds inclusive); the kept consents keep their relative order.
C4_FilterKeepsExactlyApplicable ==
    op.name = "filter" =>
        /\ \A i \in 1..Len(consents) :
              (\E k \in 1..Len(op.kept) : op.kept[k] = i)
              <=> /\ consents[i].status = "active"
                  /\ \/ consents[i].start.kind = "absent"
                     \/ /\ consents[i].start.kind = "instant"
                        /\ op.reads[i].start.has
                        /\ consents[i].start.t <= op.reads[i].start.t
                  /\ \/ consents[i].end.kind = "absent"
                     \/ /\ consents[i].end.kind = "instant"
                        /\ op.reads[i].end.has
                        /\ consents[i].end.t >= op.reads[i].end.t
        /\ \A a, b \in 1..Len(op.kept) : a < b => op.kept[a] < op.kept[b]

C4_Witness ==
    /\ op.name = "filter"
    /\ Len(consents) = 2
    /\ op.kept = <<1, 2>>
    /\ consents[1].start = Instant(op.reads[1].start.t)
    /\ consents[2].end = Instant(op.reads[2].end.t)
    /\ op.reads[2].end.t = now + 1

\* C1: over the consents that pass the applicability filter, the Card is Deny
\* if at least one resolves to deny, else Permit if at least one resolves to
\* permit, else NoConsent; consents resolving to unspecified change nothing.
C1_Resolved(d) == {k \in 1..Len(op.filtered) : consentDecision(consents[op.filtered[k]]) = d}

C1_AggregateDecision ==
    (op.name = "process" /\ card.returned) =>
        /\ C1_Resolved("deny") # {} => card.summary = CONSENT_DENY
        /\ (C1_Resolved("deny") = {} /\ C1_Resolved("permit") # {})
              => card.summary = CONSENT_PERMIT
        /\ (C1_Resolved("deny") = {} /\ C1_Resolved("permit") = {})
              => card.summary = NO_CONSENT

C1_Witness ==
    /\ op.name = "process"
    /\ card.returned
    /\ Len(consents) = 2
    /\ Len(op.filtered) = 2
    /\ C1_Resolved("deny") # {}
    /\ C1_Resolved("permit") # {}
    /\ card.summary = CONSENT_DENY

\* C5: applicableBindingsFor returns a binding exactly when one of its matcher
\* codes has the (system, code) of an input coding and that input coding's
\* confidence is at least the threshold.
C5_InputConfidence(binding) ==
    \E m \in 1..Len(allCodeObjects(binding)), i \in 1..Len(ctx.codings) :
        /\ SameKey(allCodeObjects(binding)[m], ctx.codings[i])
        /\ ctx.codings[i].confidence.has
        /\ ctx.codings[i].confidence.v >= engine.threshold

C5_InputConfidenceDecides ==
    op.name = "match" =>
        op.result = SelectSeq(engine.bindings, C5_InputConfidence)

\* C5 (amended): applicableBindingsFor returns a binding exactly when one of
\* its matcher codes has the (system, code) of an input coding and that
\* matcher code's confidence, as stored in the binding's code set, is at least
\* the threshold; the input coding's own confidence plays no part.
C5_MatcherConfidence(binding) ==
    \E m \in 1..Len(allCodeObjects(binding)), i \in 1..Len(ctx.codings) :
        /\ SameKey(allCodeObjects(binding)[m], ctx.codings[i])
        /\ allCodeObjects(binding)[m].confidence >= engine.threshold

C5_MatcherConfidenceDecides ==
    op.name = "match" =>
        op.result = SelectSeq(engine.bindings, C5_MatcherConfidence)

\* An input coding without confidence matches a matcher code whose confidence
\* equals the threshold; a second binding matches by code and falls short.
C5_Witness ==
    /\ op.name = "match"
    /\ Len(engine.bindings) = 2
    /\ Len(op.result) = 1
    /\ \A i \in 1..Len(ctx.codings) : ~ctx.codings[i].confidence.has
    /\ \A b \in 1..Len(engine.bindings) :
          \E m \in 1..Len(allCodeObjects(engine.bindings[b])), i \in 1..Len(ctx.codings) :
              SameKey(allCodeObjects(engine.bindings[b])[m], ctx.codings[i])
    /\ \E m \in 1..Len(allCodeObjects(op.result[1])) :
          allCodeObjects(op.result[1])[m].confidence = engine.threshold

(***************************************************************************)
(* Claims about labels on document units and about redaction.              *)
(***************************************************************************)
\* The ids of the units a document enumerates, in order.
UnitIdSeq(d) == [k \in 1..Len(getLabelableUnits(d)) |-> getLabelableUnits(d)[k].id]

\* The unit with this id carries a label whose (system, code) is in rs.
CarriesAny(d, unitId, rs) ==
    \E u \in 1..Len(getSecurityLabelsForUnit(d, unitId)), r \in 1..Len(rs) :
        SameKey(getSecurityLabelsForUnit(d, unitId)[u], rs[r])

\* C6: after redactFromLabels on a document of either format, the units it
\* enumerates are exactly the prior units carrying no label of the redaction
\* set.  (The extension is one that addSecurityLabels has gone over: its
\* content, if any, is the document's own bundle.)
C6_RedactionKeepsExactlyUnmatched ==
    [][(/\ op'.name = "redact"
        /\ ext.hasDoc
        /\ ext.hasContent => ext.content = ext.doc)
       => UnitIdSeq(heap'[ext.doc])
            = SelectSeq(UnitIdSeq(heap[ext.doc]),
                        LAMBDA id : ~CarriesAny(heap[ext.doc], id,
                                                RedactionLabels(ext.obligations)))]_vars

\* The entry list redactFromLabels filters, empty when there is none.
EntryList(h, e) == IF HasEntryList(h, e) THEN h[e.content].entry ELSE <<>>

\* C7: when the obligations carry no redaction code, redactFromLabels leaves
\* the list of entries as it was, on the document path and on the legacy path.
C7_EmptyRedactionSetRemovesNothing ==
    [][(op'.name = "redact" /\ RedactionLabels(ext.obligations) = <<>>)
       => EntryList(heap', ext') = EntryList(heap, ext)]_vars

\* No unit of d carries two label entries with the same (system, code).
UniqueLabels(d) ==
    \A id \in Range(UnitIdSeq(d)) :
        LET ls == getSecurityLabelsForUnit(d, id)
        IN \A a, b \in 1..Len(ls) : SameKey(ls[a], ls[b]) => a = b

\* C8: a call of applySecurityLabelsToUnit on a document whose units carry no
\* duplicate labels leaves it so, on either format, whatever the label list.
C8_ApplyKeepsLabelsUnique ==
    [][(op'.name = "apply" /\ UniqueLabels(heap[ext.doc]))
       => UniqueLabels(heap'[ext.doc])]_vars

\* The policy ids the labels of ls with the (system, code) of key carry.
PoliciesOf(ls, key) ==
    UNION {Range(ls[k].policies) : k \in {j \in 1..Len(ls) : SameKey(ls[j], key)}}

\* C9: when a label already on a unit is applied again, getSecurityLabelsForUnit
\* returns it once, with exactly one policy per policy id of the union of the
\* policies it carried and the policies applied.
C9_PoliciesUnionedById ==
    [][op'.name = "apply" =>
        LET before == getSecurityLabelsForUnit(heap[ext.doc], op'.unit)
            after == getSecurityLabelsForUnit(heap'[ext.doc], op'.unit)
        IN \A l \in Range(op'.labels) :
              (\E b \in 1..Len(before) : SameKey(before[b], l)) =>
                  LET hits == {a \in 1..Len(after) : SameKey(after[a], l)}
                  IN /\ Cardinality(hits) = 1
                     /\ \A a \in hits :
                          /\ Range(after[a].policies)
                               = PoliciesOf(before, l) \cup PoliciesOf(op'.labels, l)
                          /\ \A x, y \in 1..Len(after[a].policies) :
                               after[a].policies[x] = after[a].policies[y] => x = y]_vars

\* C10: applying the labels of a binding to a unit a second time, or labeling
\* the document from the same bindings a second time, leaves every unit with
\* the labels and the policies it had after the first time.
C10_LabelingIdempotent ==
    [][(op'.name \in {"apply", "label"} /\ op'.repeat)
       => \A id \in Range(UnitIdSeq(heap[ext.doc])) :
             getSecurityLabelsForUnit(heap'[ext'.doc], id)
                = getSecurityLabelsForUnit(heap[ext.doc], id)]_vars

C10_Witness ==
    /\ op.name = "apply"
    /\ op.repeat
    /\ getDocumentType(heap[ext.doc]) = FHIR_BUNDLE
    /\ Len(op.labels) = 2
    /\ \A l \in Range(op.labels) :
          \E k \in 1..Len(getSecurityLabelsForUnit(heap[ext.doc], op.unit)) :
              /\ SameKey(getSecurityLabelsForUnit(heap[ext.doc], op.unit)[k], l)
              /\ l.policies # <<>>

\* C13: when the request has no content, or only raw content that no
\* registered processor accepts, process returns a Card with the aggregate
\* decision and does not throw; labeling and redaction are skipped (no
\* document, no obligation, no object changed) and the audit event, when
\* enabled, is still created.
C13_NoProcessor ==
    \/ ctx.kind = "none"
    \/ (ctx.kind = "raw" /\ ~findProcessor(heap["orig"]))

LabelKeysAt(d, unit) ==
    IF d.type = "bundle"
    THEN IF d.entry[unit.at].hasSecurity
         THEN {Coding(d.entry[unit.at].security[k].system, d.entry[unit.at].security[k].code) :
                  k \in 1..Len(d.entry[unit.at].security)}
         ELSE {}
    ELSE {Coding(Cda_confAt(d, unit.at).codes[k].system, Cda_confAt(d, unit.at).codes[k].code) :
             k \in 1..Len(Cda_confAt(d, unit.at).codes)}

\* The label keys of the bindings applicable to the unit's own codings.
ApplicableLabelKeys(d, unit) ==
    LET bs == applicableBindingsFor(extractCodings(d, unit), engine.bindings, engine.threshold)
    IN UNION {{Coding(bs[b].labels[l].system, bs[b].labels[l].code) :
                  l \in 1..Len(bs[b].labels)} : b \in 1..Len(bs)}

\* C11: after process on a context with a document, whatever the decision,
\* every unit of the returned document carries each label of every binding
\* applicable to its own codings at the engine threshold and, besides the
\* labels it came with, no other label.
C11_EveryUnitLabeledByItsOwnCodings ==
    (op.name = "process" /\ ~op.threw /\ ext.hasDoc) =>
        \A k \in 1..Len(getLabelableUnits(heap[ext.doc])) :
            LET unit == getLabelableUnits(heap[ext.doc])[k]
            IN /\ ApplicableLabelKeys(heap[ext.doc], unit) \subseteq LabelKeysAt(heap[ext.doc], unit)
               /\ ~engine.redaction_enabled =>
                     LabelKeysAt(heap[ext.doc], unit)
                        \subseteq (LabelKeysAt(heap["orig"], unit)
                                      \cup ApplicableLabelKeys(heap[ext.doc], unit))

\* The label keys of all the engine's bindings.
EngineLabelKeys ==
    UNION {{Coding(engine.bindings[b].labels[l].system, engine.bindings[b].labels[l].code) :
               l \in 1..Len(engine.bindings[b].labels)} : b \in 1..Len(engine.bindings)}

\* C12: process on zero consents gives a no-consent Card whose document is
\* the input copied and nothing else: the same units, each with the labels
\* it had, and on the legacy content path the same entries.
C12_ZeroConsentsCopyUnchanged ==
    [][(op'.name = "process" /\ ~op'.threw /\ consents = <<>>) =>
          /\ card'.summary = NO_CONSENT
          /\ ext'.hasDoc =>
                /\ UnitIdSeq(heap'[ext'.doc]) = UnitIdSeq(heap["orig"])
                /\ \A k \in 1..Len(getLabelableUnits(heap["orig"])) :
                      LabelKeysAt(heap'[ext'.doc], getLabelableUnits(heap["orig"])[k])
                         = LabelKeysAt(heap["orig"], getLabelableUnits(heap["orig"])[k])
          /\ (~ext'.hasDoc /\ ext'.hasContent) =>
                EntryList(heap', ext') = heap["orig"].entry]_vars

\* C12 (amended): process on zero consents gives a no-consent Card with a
\* no-consent extension decision; labeling still runs, and with redaction
\* disabled the document is the input copied with the same units, each
\* keeping the labels it had and gaining only labels of the engine's
\* bindings, and on the legacy content path the same entries.
C12_ZeroConsentsNoConsentLabeledCopy ==
    [][(op'.name = "process" /\ ~op'.threw /\ consents = <<>>) =>
          /\ card'.summary = NO_CONSENT
          /\ ext'.decision = NO_CONSENT
          /\ ~engine.redaction_enabled =>
                /\ ext'.hasDoc =>
                      /\ UnitIdSeq(heap'[ext'.doc]) = UnitIdSeq(heap["orig"])
                      /\ \A k \in 1..Len(getLabelableUnits(heap["orig"])) :
                            LET unit == getLabelableUnits(heap["orig"])[k]
                            IN /\ LabelKeysAt(heap["orig"], unit)
                                     \subseteq LabelKeysAt(heap'[ext'.doc], unit)
                               /\ LabelKeysAt(heap'[ext'.doc], unit)
                                     \subseteq (LabelKeysAt(heap["orig"], unit) \cup EngineLabelKeys)
                /\ (~ext'.hasDoc /\ ext'.hasContent) =>
                      EntryList(heap', ext') = heap["orig"].entry]_vars

\* Zero consents, redaction disabled, and a unit of the returned document
\* carries a label the input's unit did not.
C12_Witness ==
    /\ op.name = "process"
    /\ consents = <<>>
    /\ card.returned
    /\ card.summary = NO_CONSENT
    /\ ~engine.redaction_enabled
    /\ ext.hasDoc
    /\ \E k \in 1..Len(getLabelableUnits(heap["orig"])) :
          LabelKeysAt(heap[ext.doc], getLabelableUnits(heap["orig"])[k])
             # LabelKeysAt(heap["orig"], getLabelableUnits(heap["orig"])[k])

\* C14: process leaves the caller's input object as it was: the same units,
\* labels and entry list, for every consent list, every kind of context and
\* with redaction enabled or disabled.
C14_InputUnchanged ==
    [][op'.name = "process" => heap'["orig"] = heap["orig"]]_vars

\* A call with redaction enabled whose own copy lost a unit of the input.
C14_Witness ==
    /\ op.name = "process"
    /\ engine.redaction_enabled
    /\ ext.hasDoc
    /\ ext.doc = "clone"
    /\ Len(getLabelableUnits(heap["clone"])) < Len(getLabelableUnits(heap["orig"]))
    /\ heap["clone"].type = "bundle"

\* C16: the ids of the units a document enumerates are pairwise distinct.
C16_UnitIdsDistinct ==
    ext.hasDoc =>
        \A i, j \in 1..Len(getLabelableUnits(heap[ext.doc])) :
            i # j => getLabelableUnits(heap[ext.doc])[i].id # getLabelableUnits(heap[ext.doc])[j].id

\* The (system, code) keys of a list of labels.
KeysOf(labels) == {Coding(labels[k].system, labels[k].code) : k \in 1..Len(labels)}

\* C17: applySecurityLabelsToUnit(u.id, L), u a unit the document
\* enumerates, puts L on the element u wraps, getSecurityLabelsForUnit(u.id)
\* then contains L, and the labels of every other unit are as before.
C17_ApplyReachesTheUnitsOwnElement ==
    [][op'.name = "apply" =>
          \A k \in 1..Len(getLabelableUnits(heap[ext.doc])) :
              LET units == getLabelableUnits(heap[ext.doc])
              IN units[k].id = op'.unit =>
                   /\ KeysOf(op'.labels) \subseteq LabelKeysAt(heap'[ext.doc], units[k])
                   /\ KeysOf(op'.labels)
                         \subseteq KeysOf(getSecurityLabelsForUnit(heap'[ext.doc], units[k].id))
                   /\ \A j \in 1..Len(units) :
                         j # k => LabelKeysAt(heap'[ext.doc], units[j])
                                    = LabelKeysAt(heap[ext.doc], units[j])]_vars

\* The settings list a find operation searches in a module.
SettingsOf(m, kind) == IF kind = "findCategoryByCode" THEN m.categories ELSE m.purposes

\* The positions of the enabled registered modules that hold the code.
EnabledHolding(kind, code) ==
    {i \in 1..Len(registry.modules) :
        /\ module[registry.modules[i]].enabled
        /\ \E k \in 1..Len(SettingsOf(module[registry.modules[i]], kind)) :
              SettingsOf(module[registry.modules[i]], kind)[k].act_code = code}

\* C18: after any sequence of registry operations, findCategoryByCode(c) and
\* findPurposeByCode(c) return an entry with code c of the lowest-index
\* enabled module that holds c, and null when no enabled module holds c.
C18_FindReturnsFirstEnabledMatch ==
    op.name \in {"findCategoryByCode", "findPurposeByCode"} =>
        IF EnabledHolding(op.name, op.code) = {}
        THEN ~op.result.has
        ELSE /\ op.result.has
             /\ \E i \in EnabledHolding(op.name, op.code) :
                   /\ \A j \in EnabledHolding(op.name, op.code) : i <= j
                   /\ op.result.ref = registry.modules[i]
             /\ module[op.result.ref].enabled
             /\ SettingsOf(module[op.result.ref], op.name)[op.result.at].act_code = op.code

\* A disabled module that holds the code stands before the enabled module
\* whose entry is returned.
C18_Witness ==
    /\ op.name = "findCategoryByCode"
    /\ op.result.has
    /\ Len(registry.modules) >= 2
    /\ op.result.ref = registry.modules[2]
    /\ ~module[registry.modules[1]].enabled
    /\ categoryForCode(module[registry.modules[1]], op.code) # 0
    /\ nOps = MaxOps

\* C19: no two registered modules have the same id.
C19_ModuleIdsUnique ==
    \A i, j \in 1..Len(registry.modules) :
        i # j => module[registry.modules[i]].id # module[registry.modules[j]].id

\* C20: enableModule(id) and disableModule(id) set the enabled flag of the
\* first registered module with that id, change nothing else of any module,
\* leave the registry's list as it is and return true; for an id that is not
\* registered they return false and change nothing.
C20_EnableDisableChangeOnlyTheFlag ==
    [][op'.name \in {"enableModule", "disableModule"} =>
          /\ registry' = registry
          /\ IF \E i \in 1..Len(registry.modules) : module[registry.modules[i]].id = op'.id
             THEN /\ op'.result = TRUE
                  /\ \E i \in 1..Len(registry.modules) :
                        /\ module[registry.modules[i]].id = op'.id
                        /\ \A j \in 1..(i - 1) : module[registry.modules[j]].id # op'.id
                        /\ module' = [module EXCEPT ![registry.modules[i]].enabled =
                                                       (op'.name = "enableModule")]
             ELSE /\ op'.result = FALSE
                  /\ module' = module]_vars

\* A module was enabled by id while the other registered module stays disabled.
C20_Witness ==
    /\ op.name = "enableModule"
    /\ op.result = TRUE
    /\ Len(registry.modules) = 2
    /\ module[registry.modules[1]].enabled
    /\ ~module[registry.modules[2]].enabled
    /\ module[registry.modules[1]].id = op.id
    /\ module[registry.modules[2]].id # op.id

\* C15: no engine operation changes a field of a Consent passed to it or of
\* its provisions (root decision, securityLabel list, purpose list).
C15_ConsentsReadOnly ==
    [][op'.name = "computeConsentDecisionsForDocument" => consents' = consents]_vars

\* C21: addModuleAt(m, p) on a registry of n modules puts m at index
\* min(max(p, 0), n) (counted from 0); the modules before that index stay
\* where they were and those from that index on move down by one, in the
\* order they had.
C21_AddModuleAtInsertsAtClampedIndex ==
    [][op'.name = "addModuleAt" =>
          LET n == Len(registry.modules)
              lo == IF op'.priority < 0 THEN 0 ELSE op'.priority
              at == IF lo > n THEN n ELSE lo
          IN /\ Len(registry'.modules) = n + 1
             /\ registry'.modules[at + 1] = op'.ref
             /\ \A i \in 1..at : registry'.modules[i] = registry.modules[i]
             /\ \A i \in (at + 1)..n : registry'.modules[i + 1] = registry.modules[i]]_vars

\* A module was inserted with a negative priority in front of two others.
C21_Witness ==
    /\ op.name = "addModuleAt"
    /\ op.priority < 0
    /\ Len(registry.modules) = 3
    /\ registry.modules[1] = op.ref
    /\ registry.modules[2] # op.ref
    /\ registry.modules[3] # op.ref
    /\ registry.modules[2] # registry.modules[3]

\* Purpose alignment of provision p: some enabled purpose of an enabled
\* registered module has its (system, code) in p's purpose list.
PurposeAligned(p) ==
    \E i \in 1..Len(registry.modules) :
        /\ module[registry.modules[i]].enabled
        /\ \E k \in 1..Len(module[registry.modules[i]].purposes) :
              /\ module[registry.modules[i]].purposes[k].enabled
              /\ \E j \in 1..Len(p.purpose.list) :
                    /\ p.purpose.list[j].system = module[registry.modules[i]].purposes[k].system
                    /\ p.purpose.list[j].code = module[registry.modules[i]].purposes[k].act_code

\* The redaction set of provision p under a root decision: of the categories
\* of the enabled registered modules, those p's securityLabel list does not
\* name when the root permits, those it names otherwise.
RedactionSetOf(p, decision) ==
    {Coding(c.system, c.act_code) :
        c \in {x \in UNION {Range(module[registry.modules[i]].categories) :
                               i \in {j \in 1..Len(registry.modules) :
                                         module[registry.modules[j]].enabled}} :
                  (decision = "permit")
                     # (\E j \in 1..Len(p.securityLabel.list) :
                            p.securityLabel.list[j].code = x.act_code)}}

\* The decision C22 gives a unit of document d under the one provision p.
C22_Expected(d, unit, p, decision) ==
    IF LabelKeysAt(d, unit) = {}
    THEN IF decision = "permit" /\ PurposeAligned(p) THEN CONSENT_PERMIT ELSE CONSENT_DENY
    ELSE IF LabelKeysAt(d, unit) \cap RedactionSetOf(p, decision) = {} /\ PurposeAligned(p)
         THEN CONSENT_PERMIT ELSE CONSENT_DENY

\* C22: for a consent with one provision, computeConsentDecisionsForDocument
\* maps a unit without labels to Permit exactly when the root decision is
\* permit and purpose alignment holds, a unit with labels to Permit exactly
\* when none of its labels is in the provision's redaction set and purpose
\* alignment holds, and every other unit to Deny.
C22_OneProvisionDecisions ==
    (/\ op.name = "computeConsentDecisionsForDocument"
     /\ consents[1].provision.has
     /\ Len(consents[1].provision.list) = 1) =>
        \A k \in 1..Len(getLabelableUnits(heap["orig"])) :
            LET unit == getLabelableUnits(heap["orig"])[k]
            IN op.consentDecisions[unit.id]
                 = C22_Expected(heap["orig"], unit, consents[1].provision.list[1],
                                consents[1].decision)

\* The codes along the descriptor's parent references from entry k upward,
\* as far as n references go.
RECURSIVE DescriptorChain(_, _, _)
DescriptorChain(json, code, n) ==
    IF n = 0 \/ code = NoParent \/ ParentMapGet(json, code) = 0 THEN <<>>
    ELSE <<code>> \o DescriptorChain(json, json[ParentMapGet(json, code)].parent, n - 1)

\* C23: in a module built by fromJson the parent links are acyclic, so
\* getAncestors and isDescendantOf terminate for every node, and
\* getAncestors returns the codes from the immediate parent up to the root.
C23_ParentLinksAcyclic ==
    /\ \A k \in 1..Len(ctx.categories) :
          /\ getAncestors(ctx.categories, k).terminates
          /\ \A c \in 1..Len(ctx.categories) : isDescendantOf(ctx.categories, k, c).terminates
    /\ op.name = "getAncestors" =>
          /\ op.result.terminates
          /\ [i \in 1..Len(op.result.ancestors) |-> ctx.categories[op.result.ancestors[i]].act_code]
                = DescriptorChain(ctx.json, ctx.json[op.setting].parent, Len(ctx.json))

\* The keys (binding id, label codes whatever their order) of the engine's
\* bindings applicable to at least one unit of document d.
ApplicableBindingKeys(d) ==
    {<<engine.bindings[b].id, KeysOf(engine.bindings[b].labels)>> :
        b \in {x \in 1..Len(engine.bindings) :
                  \E k \in 1..Len(getLabelableUnits(d)) :
                      \E i \in 1..Len(applicableBindingsFor(
                                          extractCodings(d, getLabelableUnits(d)[k]),
                                          engine.bindings, engine.threshold)) :
                          applicableBindingsFor(extractCodings(d, getLabelableUnits(d)[k]),
                                                engine.bindings, engine.threshold)[i]
                             = engine.bindings[x]}}

\* C24: after the labeling pass of a process call the obligations are
\* redaction obligations, one for each distinct key (binding id, sorted
\* label codes) among the bindings applicable to at least one unit, each
\* with all the label codes of its binding.
C24_OneObligationPerBindingKey ==
    (op.name = "process" /\ ext.hasDoc) =>
        /\ Len(ext.obligations) = Cardinality(ApplicableBindingKeys(heap["orig"]))
        /\ \A o \in 1..Len(ext.obligations) :
              /\ ext.obligations[o].id = REDACTION_OBLIGATION
              /\ \E key \in ApplicableBindingKeys(heap["orig"]) :
                    KeysOf(ext.obligations[o].codes) = key[2]
        /\ \A key \in ApplicableBindingKeys(heap["orig"]) :
              \E o \in 1..Len(ext.obligations) : KeysOf(ext.obligations[o].codes) = key[2]

\* The steps of a finished call, in their order.
C25_StepsOf(eng) ==
    <<"filter", "normalize", "label">>
    \o (IF eng.redaction_enabled THEN <<"redact">> ELSE <<>>)
    \o <<"count">>
    \o (IF eng.create_audit_event THEN <<"audit">> ELSE <<>>)
    \o <<"return">>

C26_ProvisionsNeverDecide ==
    op.name = "decision" =>
        /\ op.result = IF consents[1].decision \in {"permit", "deny"}
                       THEN consents[1].decision
                       ELSE "unspecified"
        /\ consents[1].provision.has =>
              \A mode \in {"permit", "deny"} :
                  consentDecisionProvisionsRecursive(mode, consents[1].provision.list)
                      = "unspecified"

C26_Witness ==
    /\ op.name = "decision"
    /\ op.result = "permit"
    /\ consents[1].provision.has
    /\ \E i \in 1..Len(consents[1].provision.list) :
          /\ consents[1].provision.list[i].has
          /\ Len(consents[1].provision.list[i].sub) > 0

\* The units of document d that the labeling pass labels: those with an
\* applicable binding that has labels.
C27_LabeledUnits(d) ==
    {k \in 1..Len(getLabelableUnits(d)) :
        \E b \in {applicableBindingsFor(extractCodings(d, getLabelableUnits(d)[k]),
                                        engine.bindings, engine.threshold)} :
            \E i \in 1..Len(b) : Len(b[i].labels) > 0}

\* C27: the content process returns does not depend on the consents: the
\* documents and the obligations are those of a call with no consent on the
\* same input, engine bindings, threshold and redaction setting, only the
\* summary and the decision differ; with redaction enabled every unit of a
\* bundle labeled during the pass is removed, whatever the decision.
C27_ContentIndependentOfConsents ==
    op.name = "process" =>
        /\ \E base \in {process(<<>>, 0, ctx,
                                 [EmptyHeap EXCEPT !["orig"] = heap["orig"]], engine)} :
              /\ heap = base.heap
              /\ [ext EXCEPT !.decision = base.ext.decision] = base.ext
        /\ (engine.redaction_enabled /\ ext.hasDoc /\ heap["orig"].type = "bundle") =>
              \A k \in C27_LabeledUnits(heap["orig"]) :
                  \A j \in 1..Len(heap[ext.doc].entry) :
                      ~ /\ heap[ext.doc].entry[j].id
                             = heap["orig"].entry[getLabelableUnits(heap["orig"])[k].at].id
                        /\ heap[ext.doc].entry[j].codings
                             = heap["orig"].entry[getLabelableUnits(heap["orig"])[k].at].codings

C27_Witness ==
    /\ op.name = "process"
    /\ card.summary = CONSENT_PERMIT
    /\ ext.decision = CONSENT_PERMIT
    /\ engine.redaction_enabled
    /\ ext.hasDoc
    /\ heap["orig"].type = "bundle"
    /\ C27_LabeledUnits(heap["orig"]) # {}
    /\ Len(heap[ext.doc].entry) < Len(heap["orig"].entry)

\* The consent with the provisions from..to of its list only.
C28_WithProvisions(consent, from, to) ==
    [consent EXCEPT !.provision.list = SubSeq(@, from, to)]

\* C28: for a consent with two or more provisions
\* computeConsentDecisionsForDocument gives each unit the decision computed
\* under the last provision alone.
C28_LastProvisionAlone ==
    [][(op'.name = "computeConsentDecisionsForDocument"
          /\ consents[1].provision.has
          /\ Len(consents[1].provision.list) >= 2) =>
         op'.consentDecisions =
            computeConsentDecisionsForDocument(
                heap["orig"],
                C28_WithProvisions(consents[1], Len(consents[1].provision.list),
                                   Len(consents[1].provision.list)),
                registry, module).consentDecisions]_vars

\* Two provisions, the first of which alone gives another result.
C28_Witness ==
    /\ op.name = "computeConsentDecisionsForDocument"
    /\ consents[1].provision.has
    /\ Len(consents[1].provision.list) = 2
    /\ op.consentDecisions #
          computeConsentDecisionsForDocument(
              heap["orig"], C28_WithProvisions(consents[1], 1, 1),
              registry, module).consentDecisions

\* C29: for a consent with no provisions computeConsentDecisionsForDocument
\* maps every unit to Deny when the root decision is deny and to Permit
\* otherwise, an unset root decision (for which consentDecision is
\* unspecified) included; with provisions present an unset root decision
\* is treated as deny.
C29_UnsetPermitsWithoutProvisions ==
    [][op'.name = "computeConsentDecisionsForDocument" =>
         /\ ~consents[1].provision.has =>
               /\ DOMAIN op'.consentDecisions =
                     {getLabelableUnits(heap["orig"])[k].id :
                         k \in 1..Len(getLabelableUnits(heap["orig"]))}
               /\ \A id \in DOMAIN op'.consentDecisions :
                     op'.consentDecisions[id] =
                        IF consents[1].decision = "deny" THEN CONSENT_DENY ELSE CONSENT_PERMIT
               /\ consents[1].decision = "unset" => consentDecision(consents[1]) = "unspecified"
               /\ consents' = consents
         /\ (consents[1].provision.has /\ consents[1].decision = "unset") =>
               /\ consents'[1].decision = "deny"
               /\ op'.consentDecisions =
                     computeConsentDecisionsForDocument(
                         heap["orig"], [consents[1] EXCEPT !.decision = "deny"],
                         registry, module).consentDecisions]_vars

\* No provisions and an unset root decision: the units are permitted.
C29_Witness ==
    /\ op.name = "computeConsentDecisionsForDocument"
    /\ ~consents[1].provision.has
    /\ consents[1].decision = "unset"
    /\ DOMAIN op.consentDecisions # {}
    /\ \A id \in DOMAIN op.consentDecisions : op.consentDecisions[id] = CONSENT_PERMIT

\* The bindings of the modules that were enabled at the last reinitialize.
C30_SnapshotBindings ==
    Flat([i \in 1..Len(ctx.snapshot) |-> ModuleRules[ctx.snapshot[i]]])

\* The snapshot bindings applicable to a unit of document d.
C30_ApplicableTo(d, unit) ==
    {C30_SnapshotBindings[i] : i \in
        {x \in 1..Len(C30_SnapshotBindings) :
            \E y \in 1..Len(applicableBindingsFor(extractCodings(d, unit),
                                                  C30_SnapshotBindings, engine.threshold)) :
                applicableBindingsFor(extractCodings(d, unit), C30_SnapshotBindings,
                                      engine.threshold)[y] = C30_SnapshotBindings[x]}}

\* C30: the bindings used for labeling are those of the modules that were
\* enabled at the provider's last reinitialize: whatever enableModule,
\* disableModule, addModule and removeModule did to the registry since,
\* the labels process adds to the document and the obligations it emits are
\* those of exactly these bindings, those of a module disabled since
\* included.
C30_LabelingUsesReinitializeSnapshot ==
    /\ engine.bindings = C30_SnapshotBindings
    /\ (op.name = "process" /\ ext.hasDoc) =>
          /\ UNION {LabelKeysAt(heap[ext.doc], getLabelableUnits(heap["orig"])[k]) :
                      k \in 1..Len(getLabelableUnits(heap["orig"]))}
                = UNION {LabelKeysAt(heap["orig"], getLabelableUnits(heap["orig"])[k])
                           \cup UNION {KeysOf(b.labels) :
                                         b \in C30_ApplicableTo(heap["orig"],
                                                                getLabelableUnits(heap["orig"])[k])} :
                         k \in 1..Len(getLabelableUnits(heap["orig"]))}
          /\ {KeysOf(ext.obligations[o].codes) : o \in 1..Len(ext.obligations)}
                = {KeysOf(b.labels) :
                     b \in UNION {C30_ApplicableTo(heap["orig"], getLabelableUnits(heap["orig"])[k]) :
                                    k \in 1..Len(getLabelableUnits(heap["orig"]))}}

\* A call that labels with the binding of a module disabled since the last
\* reinitialize.
C30_Witness ==
    /\ op.name = "process"
    /\ ext.hasDoc
    /\ \E i \in 1..Len(ctx.snapshot) :
          /\ ~module[ctx.snapshot[i]].enabled
          /\ \E k \in 1..Len(getLabelableUnits(heap["orig"])) :
                \E b \in C30_ApplicableTo(heap["orig"], getLabelableUnits(heap["orig"])[k]) :
                    /\ b \in Range(ModuleRules[ctx.snapshot[i]])
                    /\ \E o \in 1..Len(ext.obligations) : ext.obligations[o].codes = b.labels

====
